---- MODULE Spec2Model ----
(***************************************************************************)
(* Model of the pixel-buffer engine of the image-processing application    *)
(* (App.tsx): morphology, connected-component labelling, area filter, the  *)
(* domino pip-counting pipeline and the Zhang-Suen thinning loop.          *)
(*                                                                         *)
(* A buffer is ImageData.data: a function from the sample index            *)
(* 0..width*height*4-1 to a sample 0..255, channel order R,G,B,A, pixel    *)
(* (x,y) starting at index (y*width + x)*4.                                *)
(***************************************************************************)
EXTENDS Integers, Sequences, FiniteSets, TLC

VARIABLES
    width,              \* img.width of the loaded image
    height,             \* img.height of the loaded image
    data,               \* the input buffer handed to the operation
    op,                 \* the operation that produced the current outputs
    offsets,            \* structuring element of the last morphological call
    resultado,          \* buffer returned by the last morphological call
    labels,             \* label map returned by rotularComponentes
    componentes,        \* component count returned by rotularComponentes
    areaMinima,         \* minArea of the last filtrarComponentesPorArea call
    labelsLimpos,       \* cleaned label map of filtrarComponentesPorArea
    componentesValidos, \* surviving count of filtrarComponentesPorArea
    resultadoDomino,    \* <<>> (null) or [pontosSuperior, pontosInferior]
    bin,                \* Zhang-Suen thinning grid, bin[y][x]
    changed,            \* Zhang-Suen loop flag
    pc,                 \* position of handleZhangSuen ("fora": not invoked)
    bin0,               \* history: the grid when the loop was entered
    binPasso,           \* history: the grid when the current pass began
    removidos,          \* history: pixels cleared so far in the current pass
    passos,             \* history: number of completed full passes
    thresholdAtual,     \* threshold of the last binarizarImagem call
    leuFora,            \* history: the last call read outside its buffer
    dadosSup,           \* dadosSuperior of handleAnaliseDomino
    dadosInf,           \* dadosInferior of handleAnaliseDomino
    fase,               \* position of rotularComponentes run step by step
    posicao,            \* pixel number y * width + x of its scan
    componenteAtual,    \* componenteAtual of rotularComponentes
    stack,              \* work list of the running floodFill
    acessoFora,         \* history: a cell outside the image was accessed
    imagemOriginal,     \* <<>> (null) or the data URL of the opened file
    imagemTransformada, \* <<>> (null) or the data URL of the canvas
    imagemModificada,   \* React state imagemModificada
    menu,               \* the open menu, "nenhum" if all anchors are null
    pendentes,          \* Image objects whose onload has not fired yet
    leitores,           \* FileReaders whose onload has not fired yet
    canvas,             \* pixels of the hidden canvas, <<>> when blank
    origem,             \* history: source and handler of imagemTransformada
    download            \* history: what the last handleSalvarImagem saved

vars == <<width, height, data, op, offsets, resultado, labels, componentes,
          areaMinima, labelsLimpos, componentesValidos, resultadoDomino,
          bin, changed, pc, bin0, binPasso, removidos, passos,
          thresholdAtual, leuFora, dadosSup, dadosInf,
          fase, posicao, componenteAtual, stack, acessoFora,
          imagemOriginal, imagemTransformada, imagemModificada, menu,
          pendentes, leitores, canvas, origem, download>>

morfVars == <<op, offsets, resultado>>
rotVars == <<labels, componentes, areaMinima, labelsLimpos, componentesValidos>>
zsVars == <<bin, changed, pc, bin0, binPasso, removidos, passos>>
filtroVars == <<thresholdAtual, leuFora>>
metadeVars == <<dadosSup, dadosInf>>
floodVars == <<fase, posicao, componenteAtual, stack, acessoFora>>
uiVars == <<imagemOriginal, imagemTransformada, imagemModificada, menu,
            pendentes, leitores, canvas, origem, download>>

(***************************************************************************)
(* Bounds of the input families.                                           *)
(***************************************************************************)
MorfW == 5
MorfH == 5
RotW == 4
RotH == 4
MaxAreaMinima == 3
DomW == 15
DomH == 21
ZSW == 6
ZSH == 5
PontoW == 2
PontoH == 2
InvW == 3
InvH == 4
FiltroW == 4
FiltroH == 4
FloodW == 3
FloodH == 3
UIW == 3
UIH == 3
NumFicheiros == 2
MaxPendentes == 2

(***************************************************************************)
(* Buffers.                                                                *)
(***************************************************************************)
\* Index of the red sample of pixel (x, y).
Idx(x, y, w) == (y * w + x) * 4

\* The buffer of a w x h image whose pixel number p (row-major) has the
\* RGBA colour cor[p].
MkData(w, h, cor) == [i \in 0..(w * h * 4 - 1) |-> cor[i \div 4][(i % 4) + 1]]

Preto == <<0, 0, 0, 255>>
Branco == <<255, 255, 255, 255>>
\* Colours that are not equalized (R, G and B differ): a mid-level red that is
\* not opaque, and a red of 0 under a non-zero green.
Colorido == <<100, 20, 200, 77>>
Verde == <<0, 90, 0, 255>>

\* The scan started at row 0 and column 0.
InteriorDesdeZero(w, h) ==
    IF w < 2 \/ h < 2 THEN <<>>
    ELSE [k \in 1..((w - 1) * (h - 1)) |->
            <<(k - 1) \div (w - 1), (k - 1) % (w - 1)>>]

\* Interior pixels <<y, x>> in the scan order of the two nested loops
\* for (y = 1; y < height - 1; y++) for (x = 1; x < width - 1; x++).
Interior(w, h) ==
    IF w < 3 \/ h < 3 THEN <<>>
    ELSE [k \in 1..((w - 2) * (h - 2)) |->
            <<1 + ((k - 1) \div (w - 2)), 1 + ((k - 1) % (w - 2))>>]

\* NaN, the number a read outside a typed array (undefined) turns into: a
\* value no sample and no intermediate result takes.
NaN == -999999

\* buffer[i]
Ler(buffer, i) == IF i \in DOMAIN buffer THEN buffer[i] ELSE NaN

\* Storing a number into a Uint8ClampedArray: NaN is stored as 0.
ParaUint8(v) == IF v = NaN THEN 0 ELSE v

\* buffer[i] = v: a store outside a typed array is ignored.
Escrever(buffer, i, v) ==
    IF i \in DOMAIN buffer THEN [buffer EXCEPT ![i] = ParaUint8(v)] ELSE buffer

\* Math.max in place of Math.min.
MathMinTrocado(a, b) == IF a = NaN \/ b = NaN THEN NaN ELSE IF a > b THEN a ELSE b
MathMin(a, b) == IF a = NaN \/ b = NaN THEN NaN ELSE IF a < b THEN a ELSE b
MathMax(a, b) == IF a = NaN \/ b = NaN THEN NaN ELSE IF a > b THEN a ELSE b

(***************************************************************************)
(* Loops.  TLC evaluates operator arguments on demand; Depois(v, e)        *)
(* evaluates v before e, as consecutive statements run.  Para and Enquanto *)
(* run the iterations in the order of the loop, splitting the range in two *)
(* halves so that the evaluation depth stays logarithmic.                  *)
(***************************************************************************)
Depois(v, e) == IF v = v THEN e ELSE e

\* for (k = a; k <= b; k++) st = Passo(st, k)
RECURSIVE Para(_, _, _, _)
Para(Passo(_, _), st, a, b) ==
    IF a > b THEN st
    ELSE IF a = b THEN Passo(st, a)
    ELSE LET m == (a + b) \div 2
             esq == Para(Passo, st, a, m)
         IN  Depois(esq, Para(Passo, esq, m + 1, b))

\* while (Cond(st)) st = Passo(st), for loops of at most n iterations.
RECURSIVE Enquanto(_, _, _, _)
Enquanto(Cond(_), Passo(_), st, n) ==
    IF ~Cond(st) THEN st
    ELSE IF n <= 1 THEN Passo(st)
    ELSE LET esq == Enquanto(Cond, Passo, st, n \div 2)
         IN  Depois(esq, Enquanto(Cond, Passo, esq, n - (n \div 2)))

(***************************************************************************)
(* Structuring elements, as arrays of [dy, dx].                            *)
(***************************************************************************)
ELEMENTO_ESTRUTURANTE_3X3 ==
    << <<-1, -1>>, <<-1, 0>>, <<-1, 1>>,
       <<0, -1>>,  <<0, 0>>,  <<0, 1>>,
       <<1, -1>>,  <<1, 0>>,  <<1, 1>> >>

\* The cross (N4) element of the inlined handlers.
ELEMENTO_CRUZ == << <<0, 0>>, <<-1, 0>>, <<1, 0>>, <<0, -1>>, <<0, 1>> >>

Canonicos == {ELEMENTO_ESTRUTURANTE_3X3, ELEMENTO_CRUZ}

\* Other elements inside the 3x3 window a caller may pass: without the
\* centre, asymmetric, a single offset.
ElementosTeste ==
    Canonicos \cup { << <<0, 1>>, <<1, 1>> >>, << <<-1, -1>> >>,
                     << <<0, -1>>, <<0, 0>> >> }

(***************************************************************************)
(* aplicarErosao / aplicarDilatacao.                                       *)
(***************************************************************************)
\* The buffer the neighbourhood is read from: the copy `original`.
FonteErosaoNoLugar(result, original) == result
FonteErosao(result, original) == original

FonteDilatacaoNoLugar(result, original) == result
FonteDilatacao(result, original) == original

\* let min = 255; for (const [dy, dx] of offsets) min = Math.min(min, src[idx])
RECURSIVE MinVizinhos(_, _, _, _, _, _, _)
MinVizinhos(src, w, y, x, se, k, min) ==
    IF k > Len(se) THEN min
    ELSE MinVizinhos(src, w, y, x, se, k + 1,
                     MathMin(min, Ler(src, Idx(x + se[k][2], y + se[k][1], w))))

\* let max = 0; for (const [dy, dx] of offsets) max = Math.max(max, src[idx])
RECURSIVE MaxVizinhos(_, _, _, _, _, _, _)
MaxVizinhos(src, w, y, x, se, k, max) ==
    IF k > Len(se) THEN max
    ELSE MaxVizinhos(src, w, y, x, se, k + 1,
                     MathMax(max, Ler(src, Idx(x + se[k][2], y + se[k][1], w))))

\* The body of the scan at interior pixel <<y, x>>.
ErosaoPixel(result, original, w, se, y, x) ==
    LET min == MinVizinhos(FonteErosao(result, original), w, y, x, se, 1, 255)
        outIdx == Idx(x, y, w)
    IN  Escrever(Escrever(Escrever(Escrever(result, outIdx + 2, min),
                                   outIdx + 1, min),
                          outIdx, min),
                 outIdx + 3, Ler(original, outIdx + 3))

\* result and original are two copies of data.
aplicarErosao(d, w, h, se) ==
    LET pix == Interior(w, h)
    IN  Para(LAMBDA result, k : ErosaoPixel(result, d, w, se, pix[k][1], pix[k][2]),
             d, 1, Len(pix))

DilatacaoPixel(result, original, w, se, y, x) ==
    LET max == MaxVizinhos(FonteDilatacao(result, original), w, y, x, se, 1, 0)
        outIdx == Idx(x, y, w)
    IN  Escrever(Escrever(Escrever(Escrever(result, outIdx + 2, max),
                                   outIdx + 1, max),
                          outIdx, max),
                 outIdx + 3, Ler(original, outIdx + 3))

aplicarDilatacao(d, w, h, se) ==
    LET pix == Interior(w, h)
    IN  Para(LAMBDA result, k : DilatacaoPixel(result, d, w, se, pix[k][1], pix[k][2]),
             d, 1, Len(pix))

\* Whether some original[idx] of the scan lies outside the buffer.
LeituraFora(d, w, h, se) ==
    LET pix == Interior(w, h)
    IN  \E k \in 1..Len(pix) : \E j \in 1..Len(se) :
            Idx(pix[k][2] + se[j][2], pix[k][1] + se[j][1], w) \notin DOMAIN d

\* Closing in place of opening: the two passes in the wrong order.
aplicarAberturaTrocada(d, w, h, se) ==
    aplicarErosao(aplicarDilatacao(d, w, h, se), w, h, se)
aplicarAbertura(d, w, h, se) ==
    aplicarDilatacao(aplicarErosao(d, w, h, se), w, h, se)

aplicarFechamento(d, w, h, se) ==
    aplicarErosao(aplicarDilatacao(d, w, h, se), w, h, se)

(***************************************************************************)
(* converterParaGrayscale and binarizarImagem.                             *)
(***************************************************************************)
\* Storing a number into a Uint8ClampedArray rounds it to the nearest
\* integer, ties to even; n is the number in thousandths.  The sum of the
\* three products is computed in doubles: it is within 1e-13 of n / 1000, so
\* the stored value is the one below unless n / 1000 is an exact half, where
\* the double lands on the half or next to it (Tom250 and Tom168 below are
\* two colours where it lands on it: 28.5 and 21.5).
ArredondarMilesimos(n) ==
    LET q == n \div 1000
        r == n % 1000
    IN  IF r > 500 \/ (r = 500 /\ q % 2 = 1) THEN q + 1 ELSE q

\* The blue term is left out.
GraySemAzul(r, g, b) == ArredondarMilesimos(299 * r + 587 * g)
\* gray = 0.299 * data[i] + 0.587 * data[i + 1] + 0.114 * data[i + 2], stored.
Gray(r, g, b) == ArredondarMilesimos(299 * r + 587 * g + 114 * b)

\* gray written to R, G and B of every pixel.
converterParaGrayscale(d) ==
    [i \in DOMAIN d |->
        IF i % 4 = 3 THEN d[i]
        ELSE LET b == i - (i % 4)
             IN  Gray(d[b], d[b + 1], d[b + 2])]

\* data[i] <= threshold in place of <.
AbaixoOuIgual(v, threshold) == v <= threshold
\* data[i] < threshold
Abaixo(v, threshold) == v < threshold

\* A threshold outside 0..255 is refused and the buffer returned as it was.
binarizarImagemValidada(d, threshold) ==
    IF threshold \notin 0..255 THEN d
    ELSE [i \in DOMAIN d |->
            IF i % 4 = 3 THEN d[i]
            ELSE IF Abaixo(d[i - (i % 4)], threshold) THEN 0 ELSE 255]

\* value = data[i] < threshold ? 0 : 255, written to R, G and B.
binarizarImagem(d, threshold) ==
    [i \in DOMAIN d |->
        IF i % 4 = 3 THEN d[i]
        ELSE IF Abaixo(d[i - (i % 4)], threshold) THEN 0 ELSE 255]

(***************************************************************************)
(* handleAbertura / handleFechamento of App.tsx: the two passes written    *)
(* out, on the grayscale image, with the cross.                            *)
(***************************************************************************)
\* The buffer the second pass reads: the finished output of the first.
FonteSegundaNoLugar(temp, primeira) == temp
FonteSegunda(temp, primeira) == primeira

\* Body of an erosion loop writing into temp and reading from fonte.
PassoMin(temp, fonte, w, y, x) ==
    LET min == MinVizinhos(fonte, w, y, x, ELEMENTO_CRUZ, 1, 255)
        outIdx == Idx(x, y, w)
    IN  Escrever(Escrever(Escrever(Escrever(temp, outIdx + 2, min),
                                   outIdx + 1, min),
                          outIdx, min),
                 outIdx + 3, Ler(fonte, outIdx + 3))

\* Body of a dilation loop writing into temp and reading from fonte.
PassoMax(temp, fonte, w, y, x) ==
    LET max == MaxVizinhos(fonte, w, y, x, ELEMENTO_CRUZ, 1, 0)
        outIdx == Idx(x, y, w)
    IN  Escrever(Escrever(Escrever(Escrever(temp, outIdx + 2, max),
                                   outIdx + 1, max),
                          outIdx, max),
                 outIdx + 3, Ler(fonte, outIdx + 3))

\* handleErosao of App.tsx: the loop writes into data, reading the copy
\* `original` of the grayscale image.
handleErosaoPixel(dt, original, w, y, x) ==
    LET min == MinVizinhos(original, w, y, x, ELEMENTO_CRUZ, 1, 255)
        outIdx == Idx(x, y, w)
    IN  Escrever(Escrever(Escrever(Escrever(dt, outIdx + 2, min),
                                   outIdx + 1, min),
                          outIdx, min),
                 outIdx + 3, Ler(original, outIdx + 3))

handleErosao(d, w, h) ==
    LET pix == Interior(w, h)
        original == converterParaGrayscale(d)
    IN  Para(LAMBDA dt, k :
                handleErosaoPixel(dt, original, w, pix[k][1], pix[k][2]),
             original, 1, Len(pix))

handleAbertura(d, w, h) ==
    LET pix == Interior(w, h)
        originalErosao == converterParaGrayscale(d)
        tempErosao ==
            Para(LAMBDA temp, k :
                    PassoMin(temp, originalErosao, w, pix[k][1], pix[k][2]),
                 originalErosao, 1, Len(pix))
    IN  Para(LAMBDA temp, k :
                PassoMax(temp, FonteSegunda(temp, tempErosao), w,
                         pix[k][1], pix[k][2]),
             tempErosao, 1, Len(pix))

handleFechamento(d, w, h) ==
    LET pix == Interior(w, h)
        originalDilatacao == converterParaGrayscale(d)
        tempDilatacao ==
            Para(LAMBDA temp, k :
                    PassoMax(temp, originalDilatacao, w, pix[k][1], pix[k][2]),
                 originalDilatacao, 1, Len(pix))
    IN  Para(LAMBDA temp, k :
                PassoMin(temp, FonteSegunda(temp, tempDilatacao), w,
                         pix[k][1], pix[k][2]),
             tempDilatacao, 1, Len(pix))

(***************************************************************************)
(* Neutral values of the variables a specification does not use.           *)
(***************************************************************************)
SemMorf == op = "nenhuma" /\ offsets = <<>> /\ resultado = <<>>
SemRot ==
    /\ labels = <<>>
    /\ componentes = 0
    /\ areaMinima = 0
    /\ labelsLimpos = <<>>
    /\ componentesValidos = 0
SemFiltro ==
    /\ thresholdAtual = 128
    /\ leuFora = FALSE
    /\ dadosSup = <<>>
    /\ dadosInf = <<>>
SemFlood ==
    /\ fase = "fora"
    /\ posicao = 0
    /\ componenteAtual = 1
    /\ stack = <<>>
    /\ acessoFora = FALSE
SemUI ==
    /\ imagemOriginal = <<>>
    /\ imagemTransformada = <<>>
    /\ imagemModificada = FALSE
    /\ menu = "nenhum"
    /\ pendentes = {}
    /\ leitores = {}
    /\ canvas = <<>>
    /\ origem = <<>>
    /\ download = <<>>
SemZS ==
    /\ bin = <<>>
    /\ changed = FALSE
    /\ pc = "fora"
    /\ bin0 = <<>>
    /\ binPasso = <<>>
    /\ removidos = 0
    /\ passos = 0

(***************************************************************************)
(* Morphology: the input family and the operations.                        *)
(***************************************************************************)
Paleta == {Preto, Branco, Colorido, Verde}

\* Sparse images: a background colour and at most one pixel of another colour.
CoresEsparsas(w, h, cores) ==
    LET P == 0..(w * h - 1)
    IN  { [p \in P |-> fundo] : fundo \in cores }
        \cup { [p \in P |-> IF p = q THEN c ELSE fundo] :
                 <<fundo, c, q>> \in cores \X cores \X P }

\* Dense binarized images: every black/white filling of the 3x3 window of
\* pixels (1..3, 1..3) on a uniform black or white remainder.
CoresDensas(w, h) ==
    LET J == { y * w + x : <<x, y>> \in (1..3) \X (1..3) }
    IN  { [p \in 0..(w * h - 1) |-> IF p \in J THEN f[p] ELSE fundo] :
            <<fundo, f>> \in {Preto, Branco} \X [J -> {Preto, Branco}] }

MorfInit ==
    /\ width = MorfW
    /\ height = MorfH
    /\ \E cor \in CoresEsparsas(MorfW, MorfH, Paleta) \cup CoresDensas(MorfW, MorfH) :
          data = MkData(MorfW, MorfH, cor)
    /\ SemMorf
    /\ SemRot
    /\ SemFiltro
    /\ SemFlood
    /\ SemUI
    /\ SemZS
    /\ resultadoDomino = <<>>

Erosao(se) ==
    /\ op = "nenhuma"
    /\ op' = "erosao"
    /\ offsets' = se
    /\ resultado' = aplicarErosao(data, width, height, se)
    /\ leuFora' = LeituraFora(data, width, height, se)
    /\ UNCHANGED <<thresholdAtual, metadeVars, floodVars, uiVars, width, height, data, rotVars, zsVars,
                   resultadoDomino>>

Dilatacao(se) ==
    /\ op = "nenhuma"
    /\ op' = "dilatacao"
    /\ offsets' = se
    /\ resultado' = aplicarDilatacao(data, width, height, se)
    /\ leuFora' = LeituraFora(data, width, height, se)
    /\ UNCHANGED <<thresholdAtual, metadeVars, floodVars, uiVars, width, height, data, rotVars, zsVars,
                   resultadoDomino>>

Abertura(se) ==
    /\ op = "nenhuma"
    /\ op' = "abertura"
    /\ offsets' = se
    /\ resultado' = aplicarAbertura(data, width, height, se)
    /\ leuFora' = LeituraFora(data, width, height, se)
    /\ UNCHANGED <<thresholdAtual, metadeVars, floodVars, uiVars, width, height, data, rotVars, zsVars,
                   resultadoDomino>>

Fechamento(se) ==
    /\ op = "nenhuma"
    /\ op' = "fechamento"
    /\ offsets' = se
    /\ resultado' = aplicarFechamento(data, width, height, se)
    /\ leuFora' = LeituraFora(data, width, height, se)
    /\ UNCHANGED <<thresholdAtual, metadeVars, floodVars, uiVars, width, height, data, rotVars, zsVars,
                   resultadoDomino>>

\* handleErosao of App.tsx.
ErosaoCruz ==
    /\ op = "nenhuma"
    /\ op' = "erosaoCruz"
    /\ offsets' = ELEMENTO_CRUZ
    /\ resultado' = handleErosao(data, width, height)
    /\ leuFora' = LeituraFora(data, width, height, ELEMENTO_CRUZ)
    /\ UNCHANGED <<thresholdAtual, metadeVars, floodVars, uiVars, width, height, data, rotVars, zsVars,
                   resultadoDomino>>

\* handleAbertura of App.tsx.
AberturaCruz ==
    /\ op = "nenhuma"
    /\ op' = "aberturaCruz"
    /\ offsets' = ELEMENTO_CRUZ
    /\ resultado' = handleAbertura(data, width, height)
    /\ leuFora' = LeituraFora(data, width, height, ELEMENTO_CRUZ)
    /\ UNCHANGED <<thresholdAtual, metadeVars, floodVars, uiVars, width, height, data, rotVars, zsVars,
                   resultadoDomino>>

\* handleFechamento of App.tsx.
FechamentoCruz ==
    /\ op = "nenhuma"
    /\ op' = "fechamentoCruz"
    /\ offsets' = ELEMENTO_CRUZ
    /\ resultado' = handleFechamento(data, width, height)
    /\ leuFora' = LeituraFora(data, width, height, ELEMENTO_CRUZ)
    /\ UNCHANGED <<thresholdAtual, metadeVars, floodVars, uiVars, width, height, data, rotVars, zsVars,
                   resultadoDomino>>

MorfNext ==
    \/ \E se \in ElementosTeste : Erosao(se)
    \/ \E se \in ElementosTeste : Dilatacao(se)
    \/ \E se \in Canonicos : Abertura(se)
    \/ \E se \in Canonicos : Fechamento(se)
    \/ ErosaoCruz
    \/ AberturaCruz
    \/ FechamentoCruz

SpecMorf == MorfInit /\ [][MorfNext]_vars

(***************************************************************************)
(* Morphology: properties.                                                 *)
(***************************************************************************)
Pixels == (0..(width - 1)) \X (0..(height - 1))
PixelsInteriores == { p \in Pixels : /\ 1 <= p[1] /\ p[1] <= width - 2
                                     /\ 1 <= p[2] /\ p[2] <= height - 2 }
PixelsBorda == Pixels \ PixelsInteriores

\* Red sample of pixel p = <<x, y>> of buffer b.
Vermelho(b, p) == b[Idx(p[1], p[2], width)]

MinDe(S) == CHOOSE m \in S : \A v \in S : m <= v
MaxDe(S) == CHOOSE m \in S : \A v \in S : m >= v

\* The input red samples at the offsets of element se around pixel p.
Amostras(p, se) ==
    { Vermelho(data, <<p[1] + se[k][2], p[2] + se[k][1]>>) : k \in 1..Len(se) }

Binarizada(b) ==
    \A p \in Pixels :
        /\ Vermelho(b, p) \in {0, 255}
        /\ b[Idx(p[1], p[2], width) + 1] = Vermelho(b, p)
        /\ b[Idx(p[1], p[2], width) + 2] = Vermelho(b, p)

\* R = G = B = v at pixel p of the returned buffer.
SaidaRGB(p, v) ==
    LET i == Idx(p[1], p[2], width)
    IN  resultado[i] = v /\ resultado[i + 1] = v /\ resultado[i + 2] = v

\* C1: at every interior pixel aplicarErosao writes to R, G and B the minimum,
\* and aplicarDilatacao the maximum, of the red samples of the input buffer
\* (as it was before the pass) at the structuring element's offsets.
C1_ErosaoDilatacaoSnapshot ==
    /\ op = "erosao" =>
          \A p \in PixelsInteriores : SaidaRGB(p, MinDe(Amostras(p, offsets)))
    /\ op = "dilatacao" =>
          \A p \in PixelsInteriores : SaidaRGB(p, MaxDe(Amostras(p, offsets)))

\* An erosion in which pixel (1,1) turned black while its right neighbour,
\* scanned next and reading (1,1), stayed white.
C1_Witness ==
    /\ op = "erosao"
    /\ offsets = ELEMENTO_ESTRUTURANTE_3X3
    /\ Vermelho(data, <<1, 1>>) = 255
    /\ Vermelho(resultado, <<1, 1>>) = 0
    /\ Vermelho(resultado, <<2, 1>>) = 255

\* Pixels at which every pixel the composite reads through the element is an
\* interior pixel of the first pass, and the pixels of the border ring.
LongeDaBorda(p) ==
    /\ 2 <= p[1] /\ p[1] <= width - 3
    /\ 2 <= p[2] /\ p[2] <= height - 3

InteriorTodo(b, v) == \A p \in PixelsInteriores : Vermelho(b, p) = v
BordaToda(b, v) == \A p \in PixelsBorda : Vermelho(b, p) = v

\* The interior of the returned buffer equals the interior of the input.
InteriorIgual ==
    \A p \in PixelsInteriores : \A c \in 0..3 :
        resultado[Idx(p[1], p[2], width) + c] = data[Idx(p[1], p[2], width) + c]

\* R = G = B = v and the input's alpha at every interior pixel of the output.
InteriorSaida(v) ==
    \A p \in PixelsInteriores :
        /\ SaidaRGB(p, v)
        /\ resultado[Idx(p[1], p[2], width) + 3] = data[Idx(p[1], p[2], width) + 3]

\* C3 as stated: on an all-0 interior and on an all-255 interior, with the
\* border ring unconstrained, erosion and dilation leave the interior unchanged.
C3_InteriorInalterado ==
    (op \in {"erosao", "dilatacao"} /\ offsets \in Canonicos) =>
        /\ InteriorTodo(data, 0) => InteriorIgual
        /\ InteriorTodo(data, 255) => InteriorTodo(resultado, 255)

\* C3 amended: erosion keeps an all-0 interior and dilation an all-255
\* interior whatever the border ring holds; dilation keeps an all-0 interior
\* and erosion an all-255 interior when the border ring holds the same value.
C3_InteriorInalteradoComBorda ==
    (offsets \in Canonicos) =>
        /\ (op = "erosao" /\ InteriorTodo(data, 0)) => InteriorSaida(0)
        /\ (op = "dilatacao" /\ InteriorTodo(data, 255)) => InteriorSaida(255)
        /\ (op = "dilatacao" /\ InteriorTodo(data, 0) /\ BordaToda(data, 0)) =>
              InteriorSaida(0)
        /\ (op = "erosao" /\ InteriorTodo(data, 255) /\ BordaToda(data, 255)) =>
              InteriorSaida(255)

\* An erosion of an all-0 interior under a border ring holding a white pixel.
C3_Witness ==
    /\ op = "erosao"
    /\ offsets \in Canonicos
    /\ InteriorTodo(data, 0)
    /\ \E p \in PixelsBorda : Vermelho(data, p) = 255
    /\ InteriorSaida(0)

(***************************************************************************)
(* rotularComponentes.                                                     *)
(***************************************************************************)
\* const labels = Array(height).fill(null).map(() => Array(width).fill(0))
LabelsZerados(w, h) == [y \in 0..(h - 1) |-> [x \in 0..(w - 1) |-> 0]]

\* 8-neighbourhood offsets.
dx == <<-1, -1, -1, 0, 0, 1, 1, 1>>
dy == <<-1, 0, 1, -1, 1, -1, 0, 1>>

\* Only the four edge neighbours are pushed.
Vizinhos4(x, y) == << <<x - 1, y>>, <<x, y - 1>>, <<x, y + 1>>, <<x + 1, y>> >>
\* for (let i = 0; i < 8; i++) stack.push([x + dx[i], y + dy[i]])
Vizinhos(x, y) == [i \in 1..8 |-> <<x + dx[i], y + dy[i]>>]

\* Only the lower limits are tested.
ForaSoNegativos(x, y, w, h) == x < 0 \/ y < 0
\* x < 0 || x >= width || y < 0 || y >= height
ForaDaImagem(x, y, w, h) == x < 0 \/ x >= w \/ y < 0 \/ y >= h

\* labels[y][x]; a cell that does not exist is not 0.
LerLabel(lab, x, y) ==
    IF y \in DOMAIN lab /\ x \in DOMAIN lab[y] THEN lab[y][x] ELSE NaN

\* The entries still on the stack are dropped when a pixel is labelled.
floodFillPassoSemResto(st, d, w, h, label) ==
    LET x == st.stack[Len(st.stack)][1]
        y == st.stack[Len(st.stack)][2]
        resto == SubSeq(st.stack, 1, Len(st.stack) - 1)
    IN  IF x < 0 \/ x >= w \/ y < 0 \/ y >= h
        THEN [st EXCEPT !.stack = resto]
        ELSE IF st.labels[y][x] # 0
        THEN [st EXCEPT !.stack = resto]
        ELSE IF d[Idx(x, y, w)] # 0
        THEN [st EXCEPT !.stack = resto]
        ELSE [labels |-> [st.labels EXCEPT ![y][x] = label],
              stack |-> Vizinhos(x, y)]

\* One iteration of the while loop of floodFill: st holds the label map and
\* the stack of [x, y], popped from its end.
floodFillPasso(st, d, w, h, label) ==
    LET x == st.stack[Len(st.stack)][1]
        y == st.stack[Len(st.stack)][2]
        resto == SubSeq(st.stack, 1, Len(st.stack) - 1)
    IN  IF ForaDaImagem(x, y, w, h)
        THEN [st EXCEPT !.stack = resto]
        ELSE IF LerLabel(st.labels, x, y) # 0
        THEN [st EXCEPT !.stack = resto]
        ELSE IF d[Idx(x, y, w)] # 0
        THEN [st EXCEPT !.stack = resto]
        ELSE [labels |-> [st.labels EXCEPT ![y][x] = label],
              stack |-> resto \o Vizinhos(x, y)]

\* A pixel is labelled at most once and pushes 8 entries, so the loop runs
\* at most 1 + 8 * w * h times.
floodFill(lab, startX, startY, label, d, w, h) ==
    Enquanto(LAMBDA st : st.stack # <<>>,
             LAMBDA st : floodFillPasso(st, d, w, h, label),
             [labels |-> lab, stack |-> << <<startX, startY>> >>],
             1 + 8 * w * h).labels

\* The body of the row-major scan at pixel number p.
VarreduraPixel(st, p, d, w, h) ==
    LET x == p % w
        y == p \div w
    IN  IF d[Idx(x, y, w)] = 0 /\ st.labels[y][x] = 0
        THEN [labels |-> floodFill(st.labels, x, y, st.componenteAtual, d, w, h),
              componenteAtual |-> st.componenteAtual + 1]
        ELSE st

rotularComponentes(d, w, h) ==
    LET fim == Para(LAMBDA st, p : VarreduraPixel(st, p, d, w, h),
                    [labels |-> LabelsZerados(w, h), componenteAtual |-> 1],
                    0, w * h - 1)
    IN  [labels |-> fim.labels, componentes |-> fim.componenteAtual - 1]

(***************************************************************************)
(* filtrarComponentesPorArea.                                              *)
(***************************************************************************)
\* areas[i] > areaMinima in place of >=.
SobreviveEstrito(area, minimo) == area > minimo
\* if (areas[i] >= areaMinima)
Sobrevive(area, minimo) == area >= minimo

\* if (labels[y][x] > 0) areas[labels[y][x]]++, at pixel number p.
ContarArea(areas, lab, p, w) ==
    LET l == lab[p \div w][p % w]
    IN  IF l > 0 THEN [areas EXCEPT ![l] = @ + 1] ELSE areas

\* if (areas[i] >= areaMinima) mapeamento[i] = novoLabel++
Mapear(st, i, areas, minimo) ==
    IF Sobrevive(areas[i], minimo)
    THEN [mapeamento |-> [st.mapeamento EXCEPT ![i] = st.novoLabel],
          novoLabel |-> st.novoLabel + 1]
    ELSE st

filtrarComponentesPorArea(lab, comps, minimo) ==
    LET h == Cardinality(DOMAIN lab)
        w == Cardinality(DOMAIN lab[0])
        areas == Para(LAMBDA a, p : ContarArea(a, lab, p, w),
                      [i \in 0..comps |-> 0], 0, w * h - 1)
        m == Para(LAMBDA st, i : Mapear(st, i, areas, minimo),
                  [mapeamento |-> [i \in 0..comps |-> 0], novoLabel |-> 1],
                  1, comps)
    IN  [labelsLimpos |->
            [y \in 0..(h - 1) |-> [x \in 0..(w - 1) |->
                IF lab[y][x] > 0 THEN m.mapeamento[lab[y][x]] ELSE 0]],
         componentesValidos |-> m.novoLabel - 1]

(***************************************************************************)
(* Labelling: the input family and the operations.                         *)
(***************************************************************************)
\* Every black/white filling of the window of pixels (0..3, 0..2) on a
\* uniform black or white remainder.
CoresJanela(w, h) ==
    LET J == { y * w + x : <<x, y>> \in (0..3) \X (0..2) }
    IN  { [p \in 0..(w * h - 1) |-> IF p \in J THEN f[p] ELSE fundo] :
            <<fundo, f>> \in {Preto, Branco} \X [J -> {Preto, Branco}] }

\* A white w x h image with black 3x3 squares whose top-left corners are the
\* pixels <<x, y>> of `cantos`.
CoresQuadrados(w, h, cantos) ==
    [p \in 0..(w * h - 1) |->
        IF \E c \in cantos : /\ c[1] <= p % w /\ p % w <= c[1] + 2
                             /\ c[2] <= p \div w /\ p \div w <= c[2] + 2
        THEN Preto ELSE Branco]

\* 10x4 images with two 3x3 black squares at least two white columns apart.
DoisQuadrados ==
    { MkData(10, 4, CoresQuadrados(10, 4, {<<ax, ay>>, <<bx, by>>})) :
        <<ax, ay, bx, by>> \in
          { q \in (0..1) \X (0..1) \X (5..7) \X (0..1) : q[3] >= q[1] + 5 } }

RotInit ==
    /\ \/ /\ width = RotW
          /\ height = RotH
          /\ \E cor \in CoresJanela(RotW, RotH)
                        \cup CoresEsparsas(RotW, RotH, {Preto, Branco, Colorido}) :
                data = MkData(RotW, RotH, cor)
       \/ /\ width = 10
          /\ height = 4
          /\ data \in DoisQuadrados
    /\ SemMorf
    /\ SemRot
    /\ SemFiltro
    /\ SemFlood
    /\ SemUI
    /\ SemZS
    /\ resultadoDomino = <<>>

Rotular ==
    /\ op = "nenhuma"
    /\ op' = "rotular"
    /\ LET r == rotularComponentes(data, width, height)
       IN  labels' = r.labels /\ componentes' = r.componentes
    /\ UNCHANGED <<filtroVars, metadeVars, floodVars, uiVars, width, height, data, offsets, resultado, areaMinima,
                   labelsLimpos, componentesValidos, zsVars, resultadoDomino>>

\* The surviving labels written into the input map.
EntradaAposFiltroNoLugar(lab, limpos) == limpos
\* The input map after the call: only labelsLimpos[y][x] is assigned.
EntradaAposFiltro(lab, limpos) == lab

Filtrar(minimo) ==
    /\ op = "rotular"
    /\ op' = "filtrar"
    /\ areaMinima' = minimo
    /\ LET r == filtrarComponentesPorArea(labels, componentes, minimo)
       IN  /\ labelsLimpos' = r.labelsLimpos
           /\ componentesValidos' = r.componentesValidos
           /\ labels' = EntradaAposFiltro(labels, r.labelsLimpos)
    /\ UNCHANGED <<filtroVars, metadeVars, floodVars, uiVars, width, height, data, offsets, resultado, componentes,
                   zsVars, resultadoDomino>>

RotNext ==
    \/ Rotular
    \/ \E minimo \in 1..MaxAreaMinima : Filtrar(minimo)

SpecRot == RotInit /\ [][RotNext]_vars

(***************************************************************************)
(* Labelling: properties.                                                  *)
(***************************************************************************)
Adjacentes(p, q) ==
    /\ p # q
    /\ p[1] - q[1] \in {-1, 0, 1}
    /\ p[2] - q[2] \in {-1, 0, 1}

\* The pixels of F joined to a pixel of S by a path of 8-adjacent pixels of F.
RECURSIVE Fecho(_, _, _)
Fecho(S, frente, F) ==
    LET novos == { q \in F \ S : \E s \in frente : Adjacentes(s, q) }
    IN  IF novos = {} THEN S ELSE Fecho(S \cup novos, novos, F)

\* Row-major position of pixel p = <<x, y>>.
Ordem(p) == p[2] * width + p[1]
PrimeiroDe(S) == CHOOSE p \in S : \A q \in S : Ordem(p) <= Ordem(q)

\* The 8-connected components of the pixel set F.
RECURSIVE ComponentesDe(_)
ComponentesDe(F) ==
    IF F = {} THEN {}
    ELSE LET C == Fecho({PrimeiroDe(F)}, {PrimeiroDe(F)}, F)
         IN  {C} \cup ComponentesDe(F \ C)

\* Foreground of buffer b: the pixels whose red sample is 0.
FrenteDe(b) == { p \in Pixels : Vermelho(b, p) = 0 }

Rotulo(p) == labels[p[2]][p[1]]
Limpo(p) == labelsLimpos[p[2]][p[1]]

\* C4: the label map is 0 exactly off the foreground, constant on each
\* 8-connected component and different on different components, uses exactly
\* the labels 1..componentes in the row-major order of the components' first
\* pixels, and componentes is the number of 8-connected components (2 for two
\* separated 3x3 squares, 0 for a white buffer).
C4_RotulosSaoComponentes ==
    op = "rotular" =>
        LET F == FrenteDe(data)
            CS == ComponentesDe(F)
        IN  /\ \A p \in Pixels : Rotulo(p) = 0 <=> p \notin F
            /\ \A C \in CS : \A p \in C : Rotulo(p) = Rotulo(PrimeiroDe(C))
            /\ \A C, D \in CS :
                  Ordem(PrimeiroDe(C)) < Ordem(PrimeiroDe(D)) =>
                      Rotulo(PrimeiroDe(C)) < Rotulo(PrimeiroDe(D))
            /\ { Rotulo(p) : p \in F } = 1..componentes
            /\ componentes = Cardinality(CS)
            /\ data \in DoisQuadrados => componentes = 2
            /\ F = {} => componentes = 0

\* A labelling with two components, one of them joined only diagonally.
C4_Witness ==
    /\ op = "rotular"
    /\ componentes = 2
    /\ Vermelho(data, <<0, 0>>) = 0 /\ Vermelho(data, <<1, 1>>) = 0
    /\ Vermelho(data, <<1, 0>>) # 0 /\ Vermelho(data, <<0, 1>>) # 0
    /\ Rotulo(<<1, 1>>) = 1
    /\ \E p \in Pixels : Rotulo(p) = 2

AreaDe(l) == Cardinality({ p \in Pixels : Rotulo(p) = l })
Validos == { l \in 1..componentes : AreaDe(l) >= areaMinima }

\* C5: the cleaned map is 0 on every component of area < minArea and off the
\* components; a component of area >= minArea carries its rank among the
\* surviving original labels, so the new labels are exactly
\* 1..componentesValidos in the original order, and componentesValidos is the
\* number of components of area >= minArea.
C5_FiltroPorArea ==
    op = "filtrar" =>
        /\ \A p \in Pixels :
              Limpo(p) = IF Rotulo(p) \in Validos
                         THEN Cardinality({ l \in Validos : l <= Rotulo(p) })
                         ELSE 0
        /\ { Limpo(p) : p \in { q \in Pixels : Rotulo(q) \in Validos } }
              = 1..componentesValidos
        /\ componentesValidos = Cardinality(Validos)

\* A filtering that dropped the first component and renumbered a later one.
C5_Witness ==
    /\ op = "filtrar"
    /\ componentes >= 2
    /\ 1 \notin Validos
    /\ componentesValidos >= 1
    /\ \E p \in Pixels : Rotulo(p) = 2 /\ Limpo(p) = 1
    /\ \E p \in Pixels : Rotulo(p) = 1 /\ Limpo(p) = 0

(***************************************************************************)
(* handleAnaliseDomino.                                                    *)
(***************************************************************************)
Claro == <<200, 200, 100, 255>>

detectarLinhaDivisoria(h) == h \div 2

margemLinhaDivisoria == 3
limiarDomino == 128
areaMinimaDomino == 20

\* The rows of the divider band are never written: they keep the 0 the
\* buffer was allocated with.
dadosSuperiorSemFaixa(d, i, y, linhaDivisoria) ==
    IF y < linhaDivisoria - margemLinhaDivisoria THEN d[i]
    ELSE IF y > linhaDivisoria + margemLinhaDivisoria THEN 255
    ELSE 0
\* Sample i, of row y, of dadosSuperior after the split loop.
dadosSuperiorEm(d, i, y, linhaDivisoria) ==
    IF y < linhaDivisoria - margemLinhaDivisoria THEN d[i]
    ELSE IF y > linhaDivisoria + margemLinhaDivisoria THEN 255
    ELSE 255

\* The lower half starting on the last row of the band.
dadosInferiorComFaixa(d, i, y, linhaDivisoria) ==
    IF y < linhaDivisoria - margemLinhaDivisoria THEN 255
    ELSE IF y >= linhaDivisoria + margemLinhaDivisoria THEN d[i]
    ELSE 255

\* Sample i, of row y, of dadosInferior after the split loop.
dadosInferiorEm(d, i, y, linhaDivisoria) ==
    IF y < linhaDivisoria - margemLinhaDivisoria THEN 255
    ELSE IF y > linhaDivisoria + margemLinhaDivisoria THEN d[i]
    ELSE 255

dadosSuperior(d, w, linhaDivisoria) ==
    [i \in DOMAIN d |-> dadosSuperiorEm(d, i, (i \div 4) \div w, linhaDivisoria)]
dadosInferior(d, w, linhaDivisoria) ==
    [i \in DOMAIN d |-> dadosInferiorEm(d, i, (i \div 4) \div w, linhaDivisoria)]

\* No floor at 0.
AjusteInferiorSemPiso(pontosInferiorBruto) == pontosInferiorBruto - 1
\* Math.max(0, pontosInferiorBruto - 1)
AjusteInferior(pontosInferiorBruto) == MathMax(0, pontosInferiorBruto - 1)

\* The pipeline from the loaded buffer d to the cleaned buffer and the result.
analiseDomino(d, w, h) ==
    LET cinza == converterParaGrayscale(d)
        binaria == binarizarImagem(cinza, limiarDomino)
        dadosLimpos == aplicarAbertura(binaria, w, h, ELEMENTO_ESTRUTURANTE_3X3)
        linhaDivisoria == detectarLinhaDivisoria(h)
        sup == rotularComponentes(dadosSuperior(dadosLimpos, w, linhaDivisoria), w, h)
        inf == rotularComponentes(dadosInferior(dadosLimpos, w, linhaDivisoria), w, h)
        pontosSuperior ==
            filtrarComponentesPorArea(sup.labels, sup.componentes,
                                      areaMinimaDomino).componentesValidos
        pontosInferiorBruto ==
            filtrarComponentesPorArea(inf.labels, inf.componentes,
                                      areaMinimaDomino).componentesValidos
    IN  [dadosLimpos |-> dadosLimpos,
         dadosSuperior |-> dadosSuperior(dadosLimpos, w, linhaDivisoria),
         dadosInferior |-> dadosInferior(dadosLimpos, w, linhaDivisoria),
         resultadoDomino |-> [pontosSuperior |-> pontosSuperior,
                              pontosInferior |-> AjusteInferior(pontosInferiorBruto)]]

(***************************************************************************)
(* Domino: the input family and the operation.                             *)
(***************************************************************************)
\* A rectangle <<x0, y0, w, h>> contains pixel (x, y).
NoRetangulo(r, x, y) ==
    /\ r[1] <= x /\ x < r[1] + r[3]
    /\ r[2] <= y /\ y < r[2] + r[4]

\* A white image with the rectangles of A in black and those of B in dark
\* green, and the pixels of `furos` in a light colour.
CoresRetangulos(w, h, A, B, furos) ==
    [p \in 0..(w * h - 1) |->
        IF <<p % w, p \div w>> \in furos THEN Claro
        ELSE IF \E r \in A : NoRetangulo(r, p % w, p \div w) THEN Preto
        ELSE IF \E r \in B : NoRetangulo(r, p % w, p \div w) THEN Verde
        ELSE Branco]

\* Rectangles of up to 25 pixels above and below the divider band, some of
\* them reaching into it, alone or in pairs two or three columns apart.
RetangulosSuperiorA ==
    {{}} \cup { {<<2, y0, w, 5>>} : <<y0, w>> \in {2, 3} \X {4, 5} }
RetangulosSuperiorB == { {}, {<<9, 2, 3, 5>>}, {<<9, 2, 4, 5>>} }
RetangulosInferiorA ==
    {{}} \cup { {<<2, y0, w, 19 - y0>>} : <<y0, w>> \in {12, 14} \X {4, 5} }
RetangulosInferiorB == { {}, {<<9, 14, 4, 5>>} }

FamiliaDomino ==
    { MkData(DomW, DomH, CoresRetangulos(DomW, DomH, sa \cup ia, sb \cup ib, f)) :
        <<sa, sb, ia, ib, f>> \in
            RetangulosSuperiorA \X RetangulosSuperiorB \X RetangulosInferiorA
            \X RetangulosInferiorB \X { {}, {<<3, 4>>} } }

\* 10x6 white images with a 3x3 black square in the top half (rows 0..2) and
\* one in the bottom half (rows 3..5).
QuadradosDomino ==
    { MkData(10, 6, CoresQuadrados(10, 6, {<<ax, 0>>, <<bx, 3>>})) :
        <<ax, bx>> \in (0..7) \X (0..7) }

DominoInit ==
    /\ \/ /\ width = 10
          /\ height = 6
          /\ data \in QuadradosDomino
       \/ /\ width = DomW
          /\ height = DomH
          /\ data \in FamiliaDomino
    /\ SemMorf
    /\ SemRot
    /\ SemFiltro
    /\ SemFlood
    /\ SemUI
    /\ SemZS
    /\ resultadoDomino = <<>>

\* data is the loaded image; resultado is the buffer put back on the canvas.
AnaliseDomino ==
    /\ op = "nenhuma"
    /\ op' = "domino"
    /\ LET r == analiseDomino(data, width, height)
       IN  /\ resultado' = r.dadosLimpos
           /\ resultadoDomino' = r.resultadoDomino
           /\ dadosSup' = r.dadosSuperior
           /\ dadosInf' = r.dadosInferior
    /\ UNCHANGED <<filtroVars, floodVars, uiVars, width, height, data, offsets,
                   rotVars, zsVars>>

DominoNext == AnaliseDomino

SpecDomino == DominoInit /\ [][DominoNext]_vars

(***************************************************************************)
(* Domino: properties.                                                     *)
(***************************************************************************)
\* Foreground of the cleaned image in the rows above and below the band.
FrenteSuperior ==
    { p \in FrenteDe(resultado) :
        p[2] < detectarLinhaDivisoria(height) - margemLinhaDivisoria }
FrenteInferior ==
    { p \in FrenteDe(resultado) :
        p[2] > detectarLinhaDivisoria(height) + margemLinhaDivisoria }

\* Number of 8-connected components of F of at least 20 pixels.
Grandes(F) == Cardinality({ C \in ComponentesDe(F) : Cardinality(C) >= 20 })

\* C6 as stated: a 10x6 white image with a 3x3 black square in each half
\* yields pontosSuperior = 1 and pontosInferior = 0.
C6_DoisQuadradosUmPonto ==
    (op = "domino" /\ data \in QuadradosDomino) =>
        /\ resultadoDomino.pontosSuperior = 1
        /\ resultadoDomino.pontosInferior = 0

\* C6 amended: with the divider at row 3 and the margin of 3 rows every row
\* of a 10x6 image lies in the band, so both counts are 0.
C6_DoisQuadradosNenhumPonto ==
    (op = "domino" /\ data \in QuadradosDomino) =>
        /\ detectarLinhaDivisoria(height) = 3
        /\ FrenteSuperior = {} /\ FrenteInferior = {}
        /\ resultadoDomino.pontosSuperior = 0
        /\ resultadoDomino.pontosInferior = 0

\* The pipeline has run on a 10x6 image whose cleaned buffer still holds
\* black pixels.
C6_Witness ==
    /\ op = "domino"
    /\ data \in QuadradosDomino
    /\ FrenteDe(resultado) # {}
    /\ resultadoDomino.pontosSuperior = 0

\* C7: pontosSuperior is the number of components of at least 20 pixels of
\* the rows above the band, pontosInferior is max(0, n - 1) for the number n
\* of such components of the rows below it, and neither is negative.
C7_PontosPorMetade ==
    op = "domino" =>
        LET n == Grandes(FrenteInferior)
        IN  /\ resultadoDomino.pontosSuperior = Grandes(FrenteSuperior)
            /\ resultadoDomino.pontosInferior = IF n >= 1 THEN n - 1 ELSE 0
            /\ resultadoDomino.pontosSuperior >= 0
            /\ resultadoDomino.pontosInferior >= 0

\* A run with a small and a large component above the band and two large
\* ones below it.
C7_Witness ==
    /\ op = "domino"
    /\ resultadoDomino.pontosSuperior = 1
    /\ Cardinality(ComponentesDe(FrenteSuperior)) = 2
    /\ Grandes(FrenteInferior) = 2
    /\ resultadoDomino.pontosInferior = 1

(***************************************************************************)
(* handleZhangSuen.                                                        *)
(***************************************************************************)
\* The grid built from the loaded buffer: grayscale, v = gray < 128 ? 1 : 0
\* stored as v * 255, then bin[y][x] = (data[idx] === 0 ? 0 : 1).
\* data[i] <= 128 in place of <.
EscuroOuLimiar(v) == v <= 128
\* data[i] < 128
Escuro(v) == v < 128

binDe(d, w, h) ==
    LET cinza == converterParaGrayscale(d)
    IN  [y \in 0..(h - 1) |-> [x \in 0..(w - 1) |->
            LET v == IF Escuro(cinza[Idx(x, y, w)]) THEN 1 ELSE 0
            IN  IF v * 255 = 0 THEN 0 ELSE 1]]

\* The array P of pixel (x, y): P[1] the pixel, P[2..9] its neighbours
\* clockwise from north.
P(b, y, x) ==
    << b[y][x], b[y - 1][x], b[y - 1][x + 1], b[y][x + 1], b[y + 1][x + 1],
       b[y + 1][x], b[y + 1][x - 1], b[y][x - 1], b[y - 1][x - 1] >>

\* n >= 1 in place of n >= 2.
VizinhosNoIntervaloDesdeUm(n) == n >= 1 /\ n <= 6
\* return n >= 2 && n <= 6
VizinhosNoIntervalo(n) == n >= 2 /\ n <= 6

\* n = P[2] + ... + P[9]
ContarVizinhos(q) == q[2] + q[3] + q[4] + q[5] + q[6] + q[7] + q[8] + q[9]

\* The count of transitions is not looked at.
TransicoesIgnoradas(q) == 1
\* s = number of 0 -> 1 steps along P[2], ..., P[9], P[2]
Transicoes(q) ==
    LET seq == << q[2], q[3], q[4], q[5], q[6], q[7], q[8], q[9], q[2] >>
    IN  Cardinality({ i \in 1..8 : seq[i] = 0 /\ seq[i + 1] = 1 })

\* The removal test of Passo 1.
Condicao1(q) ==
    /\ q[1] = 1
    /\ VizinhosNoIntervalo(ContarVizinhos(q))
    /\ Transicoes(q) = 1
    /\ q[2] * q[4] * q[6] = 0
    /\ q[4] * q[6] * q[8] = 0

\* The removal test of Passo 2.
Condicao2(q) ==
    /\ q[1] = 1
    /\ VizinhosNoIntervalo(ContarVizinhos(q))
    /\ Transicoes(q) = 1
    /\ q[2] * q[4] * q[8] = 0
    /\ q[2] * q[6] * q[8] = 0

\* The [y, x] pushed by the scan of the interior pixels of Passo 1 / Passo 2.
toRemove(b, w, h) ==
    { yx \in (1..(h - 2)) \X (1..(w - 2)) : Condicao1(P(b, yx[1], yx[2])) }
\* Passo 2 with the products of Passo 1.
toRemove2Repetido(b, w, h) ==
    { yx \in (1..(h - 2)) \X (1..(w - 2)) : Condicao1(P(b, yx[1], yx[2])) }
toRemove2(b, w, h) ==
    { yx \in (1..(h - 2)) \X (1..(w - 2)) : Condicao2(P(b, yx[1], yx[2])) }

\* for (const [y, x] of toRemove) bin[y][x] = 0
Limpar(b, w, h, remover) ==
    [y \in 0..(h - 1) |-> [x \in 0..(w - 1) |->
        IF <<y, x>> \in remover THEN 0 ELSE b[y][x]]]

\* Passo 2 leaves the flag as Passo 1 set it.
changedAposPasso2Esquecido(c, n) == c
\* The flag set whatever the scan found.
changedSempre(c, n) == TRUE
\* if (toRemove.length > 0) changed = true
changedAposPasso1(c, n) == IF n > 0 THEN TRUE ELSE c
\* if (toRemove2.length > 0) changed = true
changedAposPasso2(c, n) == IF n > 0 THEN TRUE ELSE c

\* v = bin[y][x] ? 0 : 255, written to R, G and B of the grayscale buffer.
SaidaZhangSuen(d, b, w) ==
    [i \in DOMAIN d |->
        IF i % 4 = 3 THEN d[i]
        ELSE IF b[(i \div 4) \div w][(i \div 4) % w] # 0 THEN 0 ELSE 255]

(***************************************************************************)
(* Zhang-Suen: the input family and the steps of the handler.              *)
(***************************************************************************)
\* Every black/white filling of the pixels (1..4, 1..3) on a uniform
\* remainder of one of the colours `fundos`.
CoresInterior(w, h, fundos) ==
    LET J == { y * w + x : <<x, y>> \in (1..4) \X (1..3) }
    IN  { [p \in 0..(w * h - 1) |-> IF p \in J THEN f[p] ELSE fundo] :
            <<fundo, f>> \in fundos \X [J -> {Preto, Branco}] }

\* 8x5 white images with a black 2x2 square at pixels (1..2, 1..2) and every
\* black/white filling of the pixels (4..6, 1..3).
QuadradoEJanela ==
    LET J == { y * 8 + x : <<x, y>> \in (4..6) \X (1..3) }
    IN  { MkData(8, 5, [p \in 0..39 |->
                          IF p \in J THEN f[p]
                          ELSE IF NoRetangulo(<<1, 1, 2, 2>>, p % 8, p \div 8)
                          THEN Preto ELSE Branco]) :
            f \in [J -> {Preto, Branco}] }

\* The pixels p0 + k * dir, k = 0..n-1.
Segmento(p0, dir, n) ==
    { <<p0[1] + k * dir[1], p0[2] + k * dir[2]>> : k \in 0..(n - 1) }

\* Horizontal, vertical and the two diagonal directions.
Direcoes == { <<1, 0>>, <<0, 1>>, <<1, 1>>, <<1, -1>> }

\* The straight lines of a w x h grid.
Linhas(w, h) ==
    { S \in { Segmento(p0, dir, n) :
                <<p0, dir, n>> \in ((0..(w - 1)) \X (0..(h - 1))) \X Direcoes
                                   \X (1..6) } :
        S \subseteq (0..(w - 1)) \X (0..(h - 1)) }

\* A white image with the pixels of S in black.
CoresLinha(w, h, S) ==
    [p \in 0..(w * h - 1) |-> IF <<p % w, p \div w>> \in S THEN Preto ELSE Branco]

\* The lines and the sparse images of a w x h grid.
CoresLinhasEEsparsas(w, h) ==
    { CoresLinha(w, h, S) : S \in Linhas(w, h) }
    \cup CoresEsparsas(w, h, {Branco, Verde, Claro})

\* Two greys on either side of the threshold.
Cinza127 == <<127, 127, 127, 255>>
Cinza128 == <<128, 128, 128, 40>>

\* The handler has been invoked on the loaded image and has not run yet.
ZSComeco ==
    /\ SemMorf
    /\ SemRot
    /\ SemFiltro
    /\ SemFlood
    /\ SemUI
    /\ bin = <<>>
    /\ changed = FALSE
    /\ pc = "inicio"
    /\ bin0 = <<>>
    /\ binPasso = <<>>
    /\ removidos = 0
    /\ passos = 0
    /\ resultadoDomino = <<>>

ZSInit ==
    /\ \/ /\ width = ZSW
          /\ height = ZSH
          /\ \E cor \in CoresInterior(ZSW, ZSH, {Preto, Branco})
                        \cup CoresLinhasEEsparsas(ZSW, ZSH)
                        \cup CoresEsparsas(ZSW, ZSH, {Cinza127, Cinza128}) :
                data = MkData(ZSW, ZSH, cor)
       \/ /\ width = 8
          /\ height = 5
          /\ data \in QuadradoEJanela
    /\ ZSComeco

\* The family explored under fairness: the fillings inside a white border
\* ring, those of a 3x3 window inside a black one, the lines and the sparse
\* images.
ZSInitFair ==
    /\ width = ZSW
    /\ height = ZSH
    /\ \E cor \in CoresInterior(ZSW, ZSH, {Branco})
                  \cup CoresDensas(ZSW, ZSH)
                  \cup CoresLinhasEEsparsas(ZSW, ZSH) :
          data = MkData(ZSW, ZSH, cor)
    /\ ZSComeco

\* Binarization, the grid, let changed = true.
Inicio ==
    /\ pc = "inicio"
    /\ pc' = "teste"
    /\ op' = "zhangSuen"
    /\ bin' = binDe(data, width, height)
    /\ bin0' = bin'
    /\ binPasso' = bin'
    /\ changed' = TRUE
    /\ UNCHANGED <<filtroVars, metadeVars, floodVars, uiVars, width, height, data, offsets, resultado, rotVars,
                   resultadoDomino, removidos, passos>>

\* while (changed) { changed = false; ...
Teste ==
    /\ pc = "teste"
    /\ IF changed
       THEN /\ changed' = FALSE
            /\ pc' = "passo1"
            /\ binPasso' = bin
            /\ removidos' = 0
       ELSE /\ pc' = "saida"
            /\ UNCHANGED <<changed, binPasso, removidos>>
    /\ UNCHANGED <<filtroVars, metadeVars, floodVars, uiVars, width, height, data, morfVars, rotVars, resultadoDomino,
                   bin, bin0, passos>>

Passo1 ==
    /\ pc = "passo1"
    /\ pc' = "passo2"
    /\ LET remover == toRemove(bin, width, height)
       IN  /\ changed' = changedAposPasso1(changed, Cardinality(remover))
           /\ bin' = Limpar(bin, width, height, remover)
           /\ removidos' = removidos + Cardinality(remover)
    /\ UNCHANGED <<filtroVars, metadeVars, floodVars, uiVars, width, height, data, morfVars, rotVars, resultadoDomino,
                   bin0, binPasso, passos>>

Passo2 ==
    /\ pc = "passo2"
    /\ pc' = "teste"
    /\ LET remover == toRemove2(bin, width, height)
       IN  /\ changed' = changedAposPasso2(changed, Cardinality(remover))
           /\ bin' = Limpar(bin, width, height, remover)
           /\ removidos' = removidos + Cardinality(remover)
    /\ passos' = passos + 1
    /\ UNCHANGED <<filtroVars, metadeVars, floodVars, uiVars, width, height, data, morfVars, rotVars, resultadoDomino,
                   bin0, binPasso>>

\* The grid written back to the buffer and put on the canvas.
Saida ==
    /\ pc = "saida"
    /\ pc' = "fim"
    /\ resultado' = SaidaZhangSuen(converterParaGrayscale(data), bin, width)
    /\ UNCHANGED <<filtroVars, metadeVars, floodVars, uiVars, width, height, data, op, offsets, rotVars, resultadoDomino,
                   bin, changed, bin0, binPasso, removidos, passos>>

ZSNext ==
    \/ Inicio
    \/ Teste
    \/ Passo1
    \/ Passo2
    \/ Saida

SpecZS == ZSInit /\ [][ZSNext]_vars

\* The handler is synchronous code: a step that can run does run.
SpecZSFair == ZSInitFair /\ [][ZSNext]_vars /\ WF_vars(ZSNext)

(***************************************************************************)
(* Zhang-Suen: properties.                                                 *)
(***************************************************************************)
\* Foreground of grid b, as pixels <<x, y>>.
FrenteBin(b) == { p \in Pixels : b[p[2]][p[1]] = 1 }

ForaDoLaco == pc \in {"saida", "fim"}

\* No interior foreground pixel of the grid passes either removal test.
PontoFixo ==
    \A p \in PixelsInteriores :
        /\ ~Condicao1(P(bin, p[2], p[1]))
        /\ ~Condicao2(P(bin, p[2], p[1]))

\* C8: the loop terminates; after each full pass it goes on exactly if the
\* pass removed a pixel, so it is left after the first full pass removing
\* none, and then no interior foreground pixel passes either removal test.
C8_TerminaNoPontoFixo ==
    /\ <>(pc = "fim")
    /\ [][(pc = "teste" /\ passos >= 1) =>
              (pc' = "saida" <=> removidos = 0)]_vars
    /\ [](ForaDoLaco =>
              /\ passos >= 1
              /\ removidos = 0
              /\ bin = binPasso
              /\ PontoFixo)

\* The loop has ended after three passes, the last of which removed nothing.
C8_Witness ==
    /\ pc = "fim"
    /\ passos >= 3
    /\ removidos = 0
    /\ bin # bin0

\* C9 as stated: the output grid has as many 8-connected foreground
\* components as the input grid.
C9_MesmoNumeroDeComponentes ==
    ForaDoLaco =>
        Cardinality(ComponentesDe(FrenteBin(bin)))
            = Cardinality(ComponentesDe(FrenteBin(bin0)))

\* C9 amended: thinning adds no foreground and splits no component: the
\* components of the output are surviving parts of distinct components of
\* the input, one at most of each; a component may disappear.
C9_NenhumComponenteDividido ==
    ForaDoLaco =>
        /\ FrenteBin(bin) \subseteq FrenteBin(bin0)
        /\ \A C \in ComponentesDe(FrenteBin(bin0)) :
              \/ C \cap FrenteBin(bin) = {}
              \/ C \cap FrenteBin(bin) \in ComponentesDe(FrenteBin(bin))
        /\ Cardinality(ComponentesDe(FrenteBin(bin)))
              <= Cardinality(ComponentesDe(FrenteBin(bin0)))

\* The loop has ended with one of two components thinned and the other
\* deleted.
C9_Witness ==
    /\ pc = "fim"
    /\ Cardinality(ComponentesDe(FrenteBin(bin0))) = 2
    /\ Cardinality(ComponentesDe(FrenteBin(bin))) = 1
    /\ \E C \in ComponentesDe(FrenteBin(bin0)) :
          /\ C \cap FrenteBin(bin) # {}
          /\ C \cap FrenteBin(bin) # C

\* The grid the loop was entered with is a straight line.
LinhaReta ==
    /\ pc \notin {"fora", "inicio"}
    /\ LET F == FrenteBin(bin0)
       IN  /\ F # {}
           /\ Cardinality(F) <= MathMax(width, height)
           /\ \E p0 \in F : \E dir \in Direcoes :
                 F = Segmento(p0, dir, Cardinality(F))

\* C10: on a single-pixel-wide horizontal, vertical or diagonal line the
\* first full pass removes no pixel and the loop ends after that one pass
\* with the grid unchanged.
C10_LinhaRetaInalterada ==
    LinhaReta =>
        /\ bin = bin0
        /\ removidos = 0
        /\ passos <= 1
        /\ (passos = 1 /\ pc = "teste") => ~changed
        /\ ForaDoLaco => passos = 1

\* The loop has ended on a diagonal line of four pixels.
C10_Witness ==
    /\ pc = "fim"
    /\ FrenteBin(bin0) = Segmento(<<1, 0>>, <<1, 1>>, 4)
    /\ bin = bin0
    /\ passos = 1

(***************************************************************************)
(* Domino: the two half buffers.                                           *)
(***************************************************************************)
\* C19: with the divider at floor(height / 2) and the margin of 3 rows, a
\* row above divider - 3 has the cleaned pixels in the top buffer and white
\* in the bottom one, a row below divider + 3 the reverse, and a row in
\* between is white in both; no pixel is foreground in both, and both
\* buffers have the full dimensions of the image.
C19_MetadesDisjuntas ==
    op = "domino" =>
        /\ DOMAIN dadosSup = 0..(width * height * 4 - 1)
        /\ DOMAIN dadosInf = 0..(width * height * 4 - 1)
        /\ \A i \in DOMAIN resultado :
              LET y == (i \div 4) \div width
              IN  IF y < (height \div 2) - 3
                  THEN dadosSup[i] = resultado[i] /\ dadosInf[i] = 255
                  ELSE IF y > (height \div 2) + 3
                  THEN dadosInf[i] = resultado[i] /\ dadosSup[i] = 255
                  ELSE dadosSup[i] = 255 /\ dadosInf[i] = 255
        /\ \A p \in Pixels : ~(Vermelho(dadosSup, p) = 0 /\ Vermelho(dadosInf, p) = 0)

\* A split with foreground in the top buffer, in the bottom buffer, and a
\* foreground pixel of the cleaned image on the last row of the band.
C19_Witness ==
    /\ op = "domino"
    /\ \E p, q, r \in Pixels :
          /\ Vermelho(dadosSup, p) = 0
          /\ Vermelho(dadosInf, q) = 0
          /\ r[2] = (height \div 2) + 3
          /\ Vermelho(resultado, r) = 0

(***************************************************************************)
(* Erosion and dilation: what they leave alone.                            *)
(***************************************************************************)
\* C15: the buffer returned by aplicarErosao / aplicarDilatacao has the length
\* of the input, its outermost ring of pixels has the input's four channels,
\* every pixel has the input's alpha, and the input buffer is not modified.
C15_BordaAlfaEEntradaPreservadas ==
    /\ [][data' = data]_vars
    /\ [](op \in {"erosao", "dilatacao"} =>
            /\ DOMAIN resultado = DOMAIN data
            /\ \A p \in PixelsBorda : \A c \in 0..3 :
                  resultado[Idx(p[1], p[2], width) + c]
                      = data[Idx(p[1], p[2], width) + c]
            /\ \A i \in DOMAIN data : i % 4 = 3 => resultado[i] = data[i])

\* An erosion that changed an image whose ring is neither black nor white
\* and not opaque.
C15_Witness ==
    /\ op = "erosao"
    /\ resultado # data
    /\ \E p \in PixelsBorda : data[Idx(p[1], p[2], width) + 3] = 77

(***************************************************************************)
(* Opening and closing as compositions.                                    *)
(***************************************************************************)
\* The pixel <<x, y>> a sample index belongs to.
PixelDe(i) == <<(i \div 4) % width, (i \div 4) \div width>>

\* The red samples of buffer b under the element se placed at pixel p.
AmostrasDe(b, p, se) ==
    { Vermelho(b, <<p[1] + se[k][2], p[2] + se[k][1]>>) : k \in 1..Len(se) }

\* Erosion and dilation of a whole buffer, as sets: interior R, G, B get the
\* minimum (maximum) under the element, everything else is copied.
Erodido(b, se) ==
    [i \in DOMAIN b |->
        IF i % 4 # 3 /\ PixelDe(i) \in PixelsInteriores
        THEN MinDe(AmostrasDe(b, PixelDe(i), se)) ELSE b[i]]

Dilatado(b, se) ==
    [i \in DOMAIN b |->
        IF i % 4 # 3 /\ PixelDe(i) \in PixelsInteriores
        THEN MaxDe(AmostrasDe(b, PixelDe(i), se)) ELSE b[i]]

\* C16: aplicarAbertura is the dilation of the finished erosion and
\* aplicarFechamento the erosion of the finished dilation; the two-loop
\* handlers of App.tsx compute the same on the grayscale image with the cross.
C16_AberturaFechamentoCompostos ==
    /\ op = "abertura" => resultado = Dilatado(Erodido(data, offsets), offsets)
    /\ op = "fechamento" => resultado = Erodido(Dilatado(data, offsets), offsets)
    /\ op = "aberturaCruz" =>
          /\ resultado = aplicarAbertura(converterParaGrayscale(data),
                                         width, height, ELEMENTO_CRUZ)
          /\ resultado = Dilatado(Erodido(converterParaGrayscale(data),
                                          ELEMENTO_CRUZ), ELEMENTO_CRUZ)
    /\ op = "fechamentoCruz" =>
          /\ resultado = aplicarFechamento(converterParaGrayscale(data),
                                           width, height, ELEMENTO_CRUZ)
          /\ resultado = Erodido(Dilatado(converterParaGrayscale(data),
                                          ELEMENTO_CRUZ), ELEMENTO_CRUZ)

\* An opening by the handler of App.tsx whose second pass restored a pixel
\* the first pass had turned black, while another one stayed black.
C16_Witness ==
    /\ op = "aberturaCruz"
    /\ \E p, q \in PixelsInteriores :
          /\ Vermelho(data, p) = 255
          /\ Vermelho(Erodido(data, ELEMENTO_CRUZ), p) = 0
          /\ Vermelho(resultado, p) = 255
          /\ Vermelho(data, q) = 255
          /\ Vermelho(resultado, q) = 0

(***************************************************************************)
(* handleErosao of App.tsx against its description.                        *)
(***************************************************************************)
\* C20 as stated: erosion reduces dark regions, so no interior pixel is
\* darker after handleErosao than it was in the grayscale image.
C20_ErosaoNaoEscurece ==
    op = "erosaoCruz" =>
        \A p \in PixelsInteriores :
            Vermelho(resultado, p) >= Vermelho(converterParaGrayscale(data), p)

(***************************************************************************)
(* converterParaGrayscale and binarizarImagem on their own.                *)
(***************************************************************************)
\* Two colours whose weighted sum is an exact half: 28.5 and 21.5.
Tom250 == <<0, 0, 250, 9>>
Tom168 == <<0, 4, 168, 200>>

\* The four grey levels from g on, with four different alphas.
CoresCinza(g) ==
    [p \in 0..3 |-> <<g + p, g + p, g + p, (g + 64 * p) % 256>>]

\* The image whose pixels repeat the four colours of a pattern.
Repetir(padrao) ==
    MkData(PontoW, PontoH, [p \in 0..(PontoW * PontoH - 1) |-> padrao[p % 4]])

\* Every pattern over six colours, and the ramps of all 256 grey levels.
FamiliaPonto ==
    { Repetir(padrao) :
        padrao \in [0..3 -> {Preto, Branco, Colorido, Claro, Tom250, Tom168}] }
    \cup { Repetir(CoresCinza(4 * k)) : k \in 0..63 }

\* Thresholds below, inside and above the sample range.
Limiares == {-1, 0, 1, 65, 128, 255, 256, 300}

PontoInit ==
    /\ width = PontoW
    /\ height = PontoH
    /\ data \in FamiliaPonto
    /\ SemMorf
    /\ SemRot
    /\ SemFiltro
    /\ SemFlood
    /\ SemUI
    /\ SemZS
    /\ resultadoDomino = <<>>

\* converterParaGrayscale on the loaded buffer, and once more on its output.
Grayscale ==
    /\ \/ /\ op = "nenhuma"
          /\ op' = "grayscale"
          /\ resultado' = converterParaGrayscale(data)
       \/ /\ op = "grayscale"
          /\ op' = "grayscale2"
          /\ resultado' = converterParaGrayscale(resultado)
    /\ UNCHANGED <<filtroVars, metadeVars, floodVars, uiVars, width, height, data, offsets,
                   rotVars, zsVars, resultadoDomino>>

\* binarizarImagem(data, t) on the loaded buffer, and once more, with the
\* same threshold, on its output.
Binarizar(t) ==
    /\ \/ /\ op = "nenhuma"
          /\ op' = "binarizar"
          /\ resultado' = binarizarImagem(data, t)
       \/ /\ op = "binarizar"
          /\ t = thresholdAtual
          /\ op' = "binarizar2"
          /\ resultado' = binarizarImagem(resultado, t)
    /\ thresholdAtual' = t
    /\ UNCHANGED <<leuFora, metadeVars, floodVars, uiVars, width, height, data, offsets,
                   rotVars, zsVars, resultadoDomino>>

PontoNext ==
    \/ Grayscale
    \/ \E t \in Limiares : Binarizar(t)

SpecPonto == PontoInit /\ [][PontoNext]_vars

(***************************************************************************)
(* Grayscale and threshold: properties.                                    *)
(***************************************************************************)
\* The alpha samples of the output are those of the input.
AlfaIgual ==
    /\ DOMAIN resultado = DOMAIN data
    /\ \A i \in DOMAIN data : i % 4 = 3 => resultado[i] = data[i]

\* C11: converterParaGrayscale applied to its own output returns it unchanged,
\* and no application changes an alpha sample.
C11_GrayscaleIdempotente ==
    /\ [][(op = "grayscale" /\ op' = "grayscale2") => resultado' = resultado]_vars
    /\ [](op \in {"grayscale", "grayscale2"} => AlfaIgual)

\* A second application on the grey version of an image that was not grey.
C11_Witness ==
    /\ op = "grayscale2"
    /\ resultado # data
    /\ \E i \in DOMAIN data : i % 4 = 0 /\ data[i] # data[i + 2]

\* C12: after binarizarImagem every pixel has R = G = B = 0 where the input
\* red was below the threshold and 255 elsewhere, alpha is unchanged, and a
\* second application with the same threshold changes nothing.
C12_BinarizarFaixaEIdempotencia ==
    /\ [][(op = "binarizar" /\ op' = "binarizar2") => resultado' = resultado]_vars
    /\ [](op = "binarizar" =>
            /\ AlfaIgual
            /\ \A i \in DOMAIN data : i % 4 = 0 =>
                  LET v == IF data[i] < thresholdAtual THEN 0 ELSE 255
                  IN  /\ resultado[i] = v
                      /\ resultado[i + 1] = v
                      /\ resultado[i + 2] = v)
    /\ [](op = "binarizar2" => AlfaIgual)

\* A second application at threshold 128 on an image with both outcomes.
C12_Witness ==
    /\ op = "binarizar2"
    /\ thresholdAtual = 128
    /\ \E i, j \in DOMAIN data : resultado[i] = 0 /\ resultado[j] = 255 /\ j % 4 = 0

Comprimento(d) == Cardinality(DOMAIN d)

\* Buffers of n pixels: a background and at most one pixel of another colour.
BuffersDe(n) ==
    { MkData(n, 1, cor) : cor \in CoresEsparsas(n, 1, {Preto, Branco, Colorido}) }

\* Widths and heights from 1 on, with a buffer one row short, of the exact
\* length, or one pixel long.
InvalidoInit ==
    /\ width \in 1..InvW
    /\ height \in 1..InvH
    /\ \E n \in {width * height - width, width * height, width * height + 1} :
          /\ n >= 1
          /\ data \in BuffersDe(n)
    /\ SemMorf
    /\ SemRot
    /\ SemFiltro
    /\ SemFlood
    /\ SemUI
    /\ SemZS
    /\ resultadoDomino = <<>>

InvalidoNext ==
    \/ \E se \in Canonicos : Erosao(se)
    \/ \E se \in Canonicos : Dilatacao(se)
    \/ \E se \in Canonicos : Abertura(se)
    \/ \E se \in Canonicos : Fechamento(se)

SpecInvalido == InvalidoInit /\ [][InvalidoNext]_vars

DimensoesInvalidas ==
    \/ width < 2
    \/ height < 2
    \/ Comprimento(data) # width * height * 4

\* C14 as stated: called with invalid dimensions an operator leaves the
\* buffer as it was and reads no sample outside it (the code has no error
\* path, so failing fast is not an outcome).
C14_DimensoesInvalidasSemEfeito ==
    (op # "nenhuma" /\ DimensoesInvalidas) => (resultado = data /\ ~leuFora)

(***************************************************************************)
(* handlePassaBaixa.                                                       *)
(***************************************************************************)
\* kernel = Array(9).fill(1 / 9), in ninths.
nonos == 9
kernel == [kidx \in 0..8 |-> 1]

\* The buffer the sum is read from: the copy originalData.
FontePassaBaixaNoLugar(dt, originalData) == dt
FontePassaBaixa(dt, originalData) == originalData

\* sum += originalData[idx] * kernel[kidx] over ky, kx in -1..1; in ninths.
RECURSIVE SomaKernel(_, _, _, _, _, _, _)
SomaKernel(src, w, y, x, c, kidx, sum) ==
    IF kidx > 8 THEN sum
    ELSE LET ky == (kidx \div 3) - 1
             kx == (kidx % 3) - 1
             idx == Idx(x + kx, y + ky, w) + c
         IN  SomaKernel(src, w, y, x, c, kidx + 1, sum + src[idx] * kernel[kidx])

\* Storing sum / 9 into a Uint8ClampedArray: the nearest integer (a sum of
\* integers over 9 is never an exact half, and the double sum is within
\* 1e-12 of it).
ArredondarNonos(sum) == (2 * sum + nonos) \div (2 * nonos)

\* data[outputIdx] = Math.max(0, Math.min(255, sum)) for c = 0, 1, 2.
PassaBaixaCanal(dt, originalData, w, y, x, c) ==
    LET sum == SomaKernel(FontePassaBaixa(dt, originalData), w, y, x, c, 0, 0)
    IN  Escrever(dt, Idx(x, y, w) + c,
                 ArredondarNonos(MathMax(0, MathMin(255 * nonos, sum))))

PassaBaixaPixel(dt, originalData, w, y, x) ==
    PassaBaixaCanal(
        PassaBaixaCanal(
            PassaBaixaCanal(dt, originalData, w, y, x, 0),
            originalData, w, y, x, 1),
        originalData, w, y, x, 2)

handlePassaBaixa(d, w, h) ==
    LET pix == Interior(w, h)
    IN  Para(LAMBDA dt, k : PassaBaixaPixel(dt, d, w, pix[k][1], pix[k][2]),
             d, 1, Len(pix))

(***************************************************************************)
(* handleRoberts.                                                          *)
(***************************************************************************)
\* Math.sqrt(n) cut to an integer.
RaizTruncada(n) == CHOOSE r \in 0..n : r * r <= n /\ n < (r + 1) * (r + 1)

\* Math.sqrt(n) stored into a Uint8ClampedArray: the nearest integer (the
\* root of an integer is never an exact half).
RaizArredondada(n) ==
    LET r == CHOOSE q \in 0..n : q * q <= n /\ n < (q + 1) * (q + 1)
    IN  IF n > r * r + r THEN r + 1 ELSE r

\* value = Math.max(0, Math.min(255, magnitude)), stored.
ValorRoberts(gx, gy) ==
    LET n == gx * gx + gy * gy
    IN  IF n >= 255 * 255 THEN 255 ELSE RaizArredondada(n)

\* grayData[idx] = data[i], idx = i / 4.
grayDataDe(d, w, h) == [idx \in 0..(w * h - 1) |-> d[idx * 4]]

\* Pixels <<y, x>> of the loops for (y = 0; y < height - 1; y++)
\* for (x = 0; x < width - 1; x++).
PixelsRoberts(w, h) ==
    IF w < 2 \/ h < 2 THEN <<>>
    ELSE [k \in 1..((w - 1) * (h - 1)) |->
            <<(k - 1) \div (w - 1), (k - 1) % (w - 1)>>]

RobertsPixel(dt, grayData, w, y, x) ==
    LET gx == grayData[y * w + x] - grayData[(y + 1) * w + (x + 1)]
        gy == grayData[y * w + (x + 1)] - grayData[(y + 1) * w + x]
        value == ValorRoberts(gx, gy)
        pixelIndex == (y * w + x) * 4
    IN  Escrever(Escrever(Escrever(dt, pixelIndex, value),
                          pixelIndex + 1, value),
                 pixelIndex + 2, value)

handleRoberts(d, w, h) ==
    LET cinza == converterParaGrayscale(d)
        grayData == grayDataDe(cinza, w, h)
        pix == PixelsRoberts(w, h)
    IN  Para(LAMBDA dt, k : RobertsPixel(dt, grayData, w, pix[k][1], pix[k][2]),
             cinza, 1, Len(pix))

(***************************************************************************)
(* The filters: the input family and the operations.                       *)
(***************************************************************************)
\* Images whose pixels, in row-major order, repeat a pattern of seven
\* colours, so that a pixel and its right, lower and lower-right neighbours
\* are chosen independently.
FamiliaFiltro ==
    { MkData(FiltroW, FiltroH,
             [p \in 0..(FiltroW * FiltroH - 1) |-> padrao[p % 7]]) :
        padrao \in [0..6 -> {Preto, Branco, Colorido, Claro}] }

FiltroInit ==
    /\ width = FiltroW
    /\ height = FiltroH
    /\ data \in FamiliaFiltro
    /\ SemMorf
    /\ SemRot
    /\ SemFiltro
    /\ SemFlood
    /\ SemUI
    /\ SemZS
    /\ resultadoDomino = <<>>

PassaBaixa ==
    /\ op = "nenhuma"
    /\ op' = "passaBaixa"
    /\ resultado' = handlePassaBaixa(data, width, height)
    /\ UNCHANGED <<filtroVars, metadeVars, floodVars, uiVars, width, height, data, offsets,
                   rotVars, zsVars, resultadoDomino>>

Roberts ==
    /\ op = "nenhuma"
    /\ op' = "roberts"
    /\ resultado' = handleRoberts(data, width, height)
    /\ UNCHANGED <<filtroVars, metadeVars, floodVars, uiVars, width, height, data, offsets,
                   rotVars, zsVars, resultadoDomino>>

FiltroNext ==
    \/ PassaBaixa
    \/ Roberts

SpecFiltro == FiltroInit /\ [][FiltroNext]_vars

(***************************************************************************)
(* The filters: properties.                                                *)
(***************************************************************************)
\* Channel c of pixel <<x, y>> of buffer b.
Canal(b, x, y, c) == b[Idx(x, y, width) + c]

\* The sum of channel c of the input over the 3x3 window centred on p.
SomaJanela(p, c) ==
    Canal(data, p[1] - 1, p[2] - 1, c) + Canal(data, p[1], p[2] - 1, c)
    + Canal(data, p[1] + 1, p[2] - 1, c) + Canal(data, p[1] - 1, p[2], c)
    + Canal(data, p[1], p[2], c) + Canal(data, p[1] + 1, p[2], c)
    + Canal(data, p[1] - 1, p[2] + 1, c) + Canal(data, p[1], p[2] + 1, c)
    + Canal(data, p[1] + 1, p[2] + 1, c)

\* C17: after handlePassaBaixa each of R, G, B of an interior pixel is the
\* mean of that channel over the 3x3 window of the input as it was before
\* the pass (the integer nearest to sum / 9, within 0..255); the border ring
\* and every alpha sample are unchanged.
C17_PassaBaixaMediaDoOriginal ==
    op = "passaBaixa" =>
        /\ DOMAIN resultado = DOMAIN data
        /\ \A i \in DOMAIN data : i % 4 = 3 => resultado[i] = data[i]
        /\ \A p \in PixelsBorda : \A c \in 0..2 :
              Canal(resultado, p[1], p[2], c) = Canal(data, p[1], p[2], c)
        /\ \A p \in PixelsInteriores : \A c \in 0..2 :
              LET v == Canal(resultado, p[1], p[2], c)
              IN  /\ v \in 0..255
                  /\ 9 * v - SomaJanela(p, c) \in -4..4

\* A pass that changed the red of two horizontally adjacent interior pixels,
\* the second of which has the first in its window.
C17_Witness ==
    /\ op = "passaBaixa"
    /\ \E p \in PixelsInteriores :
          /\ <<p[1] + 1, p[2]>> \in PixelsInteriores
          /\ Canal(resultado, p[1], p[2], 0) # Canal(data, p[1], p[2], 0)
          /\ Canal(resultado, p[1] + 1, p[2], 0) # Canal(data, p[1] + 1, p[2], 0)

\* The grayscale value of pixel <<x, y>> of the input.
Cinza(x, y) == Canal(converterParaGrayscale(data), x, y, 0)

\* C18: after handleRoberts every pixel with x <= width - 2 and
\* y <= height - 2 has R = G = B = sqrt(gx^2 + gy^2) limited to 255 (stored
\* as the nearest integer), with gx = I(x, y) - I(x+1, y+1) and
\* gy = I(x+1, y) - I(x, y+1) over the grayscale image I taken before any
\* edge value is written; the last row and the last column keep their
\* grayscale value, and alpha is never modified.
C18_RobertsSobreCinza ==
    op = "roberts" =>
        /\ DOMAIN resultado = DOMAIN data
        /\ \A i \in DOMAIN data : i % 4 = 3 => resultado[i] = data[i]
        /\ \A p \in Pixels :
              IF p[1] <= width - 2 /\ p[2] <= height - 2
              THEN LET gx == Cinza(p[1], p[2]) - Cinza(p[1] + 1, p[2] + 1)
                       gy == Cinza(p[1] + 1, p[2]) - Cinza(p[1], p[2] + 1)
                       n == gx * gx + gy * gy
                       v == Canal(resultado, p[1], p[2], 0)
                   IN  /\ SaidaRGB(p, v)
                       /\ v \in 0..255
                       /\ IF 4 * n > 509 * 509 THEN v = 255
                          ELSE /\ 4 * n < (2 * v + 1) * (2 * v + 1)
                               /\ v = 0 \/ (2 * v - 1) * (2 * v - 1) < 4 * n
              ELSE SaidaRGB(p, Cinza(p[1], p[2]))

\* A run with a limited magnitude, a magnitude rounded up, and a coloured
\* pixel of the last column turned grey.
C18_Witness ==
    /\ op = "roberts"
    /\ \E p, q \in Pixels :
          /\ p[1] <= width - 2 /\ p[2] <= height - 2
          /\ q[1] <= width - 2 /\ q[2] <= height - 2
          /\ (Cinza(p[1], p[2]) - Cinza(p[1] + 1, p[2] + 1)) = 255
          /\ (Cinza(p[1] + 1, p[2]) - Cinza(p[1], p[2] + 1)) # 0
          /\ Canal(resultado, p[1], p[2], 0) = 255
          /\ Canal(resultado, q[1], q[2], 0) \in 1..254
          /\ Canal(resultado, q[1], q[2], 0) * Canal(resultado, q[1], q[2], 0)
                > (Cinza(q[1], q[2]) - Cinza(q[1] + 1, q[2] + 1))
                    * (Cinza(q[1], q[2]) - Cinza(q[1] + 1, q[2] + 1))
                  + (Cinza(q[1] + 1, q[2]) - Cinza(q[1], q[2] + 1))
                    * (Cinza(q[1] + 1, q[2]) - Cinza(q[1], q[2] + 1))
    /\ \E y \in 0..(height - 1) :
          Canal(data, width - 1, y, 0) # Canal(resultado, width - 1, y, 0)

(***************************************************************************)
(* Zhang-Suen: the sub-iterations, the grid and the output.                *)
(***************************************************************************)
\* The eight neighbours <<dx, dy>> clockwise from north: p2, ..., p9.
Anel == << <<0, -1>>, <<1, -1>>, <<1, 0>>, <<1, 1>>,
           <<0, 1>>, <<-1, 1>>, <<-1, 0>>, <<-1, -1>> >>

\* Neighbour k + 1 of pixel p in grid b.
Vz(b, p, k) == b[p[2] + Anel[k][2]][p[1] + Anel[k][1]]

\* B: the number of foreground neighbours.
B(b, p) == Cardinality({ k \in 1..8 : Vz(b, p, k) = 1 })

\* A: the number of 0 -> 1 steps around the ring.
A(b, p) == Cardinality({ k \in 1..8 : Vz(b, p, k) = 0 /\ Vz(b, p, (k % 8) + 1) = 1 })

\* The pixels a sub-iteration clears, judged on grid b.
Remove1(b) ==
    { p \in PixelsInteriores :
        /\ b[p[2]][p[1]] = 1
        /\ B(b, p) \in 2..6
        /\ A(b, p) = 1
        /\ Vz(b, p, 1) * Vz(b, p, 3) * Vz(b, p, 5) = 0
        /\ Vz(b, p, 3) * Vz(b, p, 5) * Vz(b, p, 7) = 0 }
Remove2(b) ==
    { p \in PixelsInteriores :
        /\ b[p[2]][p[1]] = 1
        /\ B(b, p) \in 2..6
        /\ A(b, p) = 1
        /\ Vz(b, p, 1) * Vz(b, p, 3) * Vz(b, p, 7) = 0
        /\ Vz(b, p, 1) * Vz(b, p, 5) * Vz(b, p, 7) = 0 }

\* C21: sub-iteration 1 clears exactly the interior foreground pixels with
\* 2 <= B <= 6, A = 1, p2*p4*p6 = 0 and p4*p6*p8 = 0, and sub-iteration 2
\* those with p2*p4*p8 = 0 and p2*p6*p8 = 0 instead, all judged on the grid
\* as it stood when the scan began; sub-iteration 2 judges the grid left by
\* sub-iteration 1.
C21_SubIteracoesExatas ==
    /\ [][pc = "passo1" =>
            /\ pc' = "passo2"
            /\ FrenteBin(bin') = FrenteBin(bin) \ Remove1(bin)]_vars
    /\ [][pc = "passo2" =>
            /\ pc' = "teste"
            /\ FrenteBin(bin') = FrenteBin(bin) \ Remove2(bin)]_vars

\* Sub-iteration 1 has cleared pixels, and on the grid it left the two
\* tests select different, non-empty sets.
C21_Witness ==
    /\ pc = "passo2"
    /\ removidos > 0
    /\ Remove2(bin) # {}
    /\ Remove2(bin) # Remove1(bin)
    /\ Remove1(bin) # {}

\* C22: the grid cell is 1 exactly for the pixels whose grayscale value is
\* below 128; on output a cell that is 1 is written as 0 and a cell that is
\* 0 as 255 to R, G and B, alpha unchanged; a pixel that was light in the
\* input is never black in the output.
C22_GradeESaida ==
    /\ pc # "inicio" =>
          \A p \in Pixels : bin0[p[2]][p[1]] = 1 <=> Cinza(p[1], p[2]) < 128
    /\ pc = "fim" =>
          /\ DOMAIN resultado = DOMAIN data
          /\ \A i \in DOMAIN data : i % 4 = 3 => resultado[i] = data[i]
          /\ \A p \in Pixels :
                /\ SaidaRGB(p, IF bin[p[2]][p[1]] = 1 THEN 0 ELSE 255)
                /\ Cinza(p[1], p[2]) >= 128 => Vermelho(resultado, p) = 255

\* A finished run on an image with a grey of 127 written black and a grey of
\* 128, not opaque, written white.
C22_Witness ==
    /\ pc = "fim"
    /\ \E p, q \in Pixels :
          /\ Cinza(p[1], p[2]) = 127
          /\ Vermelho(resultado, p) = 0
          /\ Cinza(q[1], q[2]) = 128
          /\ Vermelho(resultado, q) = 255
          /\ Canal(resultado, q[1], q[2], 3) = 40

\* C28: in every state of the loop the foreground is within the initial
\* foreground, no cell of the outermost ring differs from its initial value,
\* and a full pass after which the loop goes on has strictly fewer foreground
\* cells at its end than at its start, while the last one has the same.
C28_FrenteDecresce ==
    pc # "inicio" =>
        /\ FrenteBin(bin) \subseteq FrenteBin(bin0)
        /\ \A p \in PixelsBorda : bin[p[2]][p[1]] = bin0[p[2]][p[1]]
        /\ (pc = "teste" /\ passos >= 1) =>
              IF changed
              THEN Cardinality(FrenteBin(bin)) < Cardinality(FrenteBin(binPasso))
              ELSE bin = binPasso

\* The second full pass has ended, the loop goes on, and the ring has
\* foreground cells.
C28_Witness ==
    /\ pc = "teste"
    /\ passos = 2
    /\ changed
    /\ \E p \in PixelsBorda : bin[p[2]][p[1]] = 1

(***************************************************************************)
(* Labelling: the order of the work list, and the frame of the filter.     *)
(***************************************************************************)
\* floodFill with the work list consumed from its front (a queue).
floodFillPassoFila(st, d, w, h, label) ==
    LET x == st.stack[1][1]
        y == st.stack[1][2]
        resto == Tail(st.stack)
    IN  IF x < 0 \/ x >= w \/ y < 0 \/ y >= h
        THEN [st EXCEPT !.stack = resto]
        ELSE IF st.labels[y][x] # 0
        THEN [st EXCEPT !.stack = resto]
        ELSE IF d[Idx(x, y, w)] # 0
        THEN [st EXCEPT !.stack = resto]
        ELSE [labels |-> [st.labels EXCEPT ![y][x] = label],
              stack |-> resto \o Vizinhos(x, y)]

floodFillFila(lab, startX, startY, label, d, w, h) ==
    Enquanto(LAMBDA st : st.stack # <<>>,
             LAMBDA st : floodFillPassoFila(st, d, w, h, label),
             [labels |-> lab, stack |-> << <<startX, startY>> >>],
             1 + 8 * w * h).labels

VarreduraPixelFila(st, p, d, w, h) ==
    LET x == p % w
        y == p \div w
    IN  IF d[Idx(x, y, w)] = 0 /\ st.labels[y][x] = 0
        THEN [labels |-> floodFillFila(st.labels, x, y, st.componenteAtual, d, w, h),
              componenteAtual |-> st.componenteAtual + 1]
        ELSE st

rotularComponentesFila(d, w, h) ==
    LET fim == Para(LAMBDA st, p : VarreduraPixelFila(st, p, d, w, h),
                    [labels |-> LabelsZerados(w, h), componenteAtual |-> 1],
                    0, w * h - 1)
    IN  [labels |-> fim.labels, componentes |-> fim.componenteAtual - 1]

\* C23: the label map and the count returned by rotularComponentes are those
\* obtained when the work list of floodFill is consumed first-in first-out.
C23_OrdemDaListaIndiferente ==
    op = "rotular" =>
        LET fila == rotularComponentesFila(data, width, height)
        IN  labels = fila.labels /\ componentes = fila.componentes

\* A labelling with two components, one of them of at least five pixels.
C23_Witness ==
    /\ op = "rotular"
    /\ componentes = 2
    /\ \E l \in 1..2 :
          Cardinality({ p \in Pixels : labels[p[2]][p[1]] = l }) >= 5

CoresFlood(w, h) ==
    LET J == { y * w + x : <<x, y>> \in (0..2) \X (0..2) }
    IN  { [p \in 0..(w * h - 1) |-> IF p \in J THEN f[p] ELSE Branco] :
            f \in [J -> {Preto, Branco}] }

FloodInit ==
    /\ width = FloodW
    /\ height = FloodH
    /\ \E cor \in CoresFlood(FloodW, FloodH) : data = MkData(FloodW, FloodH, cor)
    /\ SemMorf
    /\ labels = LabelsZerados(FloodW, FloodH)
    /\ componentes = 0
    /\ areaMinima = 0
    /\ labelsLimpos = <<>>
    /\ componentesValidos = 0
    /\ SemFiltro
    /\ fase = "varredura"
    /\ posicao = 0
    /\ componenteAtual = 1
    /\ stack = <<>>
    /\ acessoFora = FALSE
    /\ SemUI
    /\ SemZS
    /\ resultadoDomino = <<>>

\* One iteration of the scan: a black pixel without label starts floodFill;
\* after the last pixel the function returns componenteAtual - 1.
Varrer ==
    /\ fase = "varredura"
    /\ IF posicao >= width * height
       THEN /\ fase' = "fim"
            /\ componentes' = componenteAtual - 1
            /\ UNCHANGED <<posicao, stack>>
       ELSE LET x == posicao % width
                y == posicao \div width
            IN  IF data[Idx(x, y, width)] = 0 /\ labels[y][x] = 0
                THEN /\ fase' = "flood"
                     /\ stack' = << <<x, y>> >>
                     /\ UNCHANGED <<posicao, componentes>>
                ELSE /\ posicao' = posicao + 1
                     /\ UNCHANGED <<fase, stack, componentes>>
    /\ UNCHANGED <<filtroVars, metadeVars, uiVars, width, height, data, morfVars,
                   labels, areaMinima, labelsLimpos, componentesValidos,
                   componenteAtual, acessoFora, zsVars, resultadoDomino>>

\* One iteration of while (stack.length > 0), or the return of floodFill
\* followed by componenteAtual++ and the next pixel of the scan.
FloodPasso ==
    /\ fase = "flood"
    /\ IF stack = <<>>
       THEN /\ fase' = "varredura"
            /\ componenteAtual' = componenteAtual + 1
            /\ posicao' = posicao + 1
            /\ UNCHANGED <<labels, stack, acessoFora>>
       ELSE LET x == stack[Len(stack)][1]
                y == stack[Len(stack)][2]
                st == floodFillPasso([labels |-> labels, stack |-> stack],
                                     data, width, height, componenteAtual)
            IN  /\ labels' = st.labels
                /\ stack' = st.stack
                /\ acessoFora' =
                      (acessoFora \/ (/\ ~ForaDaImagem(x, y, width, height)
                                      /\ <<x, y>> \notin Pixels))
                /\ UNCHANGED <<fase, componenteAtual, posicao>>
    /\ UNCHANGED <<filtroVars, metadeVars, uiVars, width, height, data, morfVars,
                   componentes, areaMinima, labelsLimpos, componentesValidos,
                   zsVars, resultadoDomino>>

FloodNext ==
    \/ Varrer
    \/ FloodPasso

SpecFlood == FloodInit /\ [][FloodNext]_vars

\* The function is synchronous code: a step that can run does run.
SpecFloodFair == FloodInit /\ [][FloodNext]_vars /\ WF_vars(FloodNext)

(***************************************************************************)
(* floodFill: termination and frame.                                       *)
(***************************************************************************)
\* The coordinate on top of the work list.
Topo == stack[Len(stack)]

\* The popped coordinate is outside the image, labelled, or not foreground.
TopoIgnorado ==
    \/ Topo \notin Pixels
    \/ labels[Topo[2]][Topo[1]] # 0
    \/ Vermelho(data, Topo) # 0

\* C24: every floodFill call ends with an empty work list although the eight
\* neighbours are pushed unconditionally; a popped coordinate that is outside
\* the image, already labelled or not foreground is skipped; a labelled pixel
\* keeps its label for ever; no cell outside the image is read or written.
C24_FloodFillTermina ==
    /\ (fase = "flood") ~> (fase = "varredura" /\ stack = <<>>)
    /\ <>(fase = "fim")
    /\ [](fase # "flood" => stack = <<>>)
    /\ [][(fase = "flood" /\ stack # <<>>) =>
            /\ Len(stack') = IF TopoIgnorado THEN Len(stack) - 1 ELSE Len(stack) + 7
            /\ TopoIgnorado => labels' = labels
            /\ ~TopoIgnorado =>
                  labels' = [labels EXCEPT ![Topo[2]][Topo[1]] = componenteAtual]]_vars
    /\ [][\A p \in Pixels :
            labels[p[2]][p[1]] # 0 => labels'[p[2]][p[1]] = labels[p[2]][p[1]]]_vars
    /\ [](~acessoFora)
    /\ [](DOMAIN labels = 0..(height - 1)
          /\ \A y \in DOMAIN labels : DOMAIN labels[y] = 0..(width - 1))

\* The second floodFill is running: its list holds coordinates outside the
\* image and a pixel it has already labelled, and the first floodFill has
\* left its labels.
C24_Witness ==
    /\ fase = "flood"
    /\ componenteAtual = 2
    /\ \E k \in 1..Len(stack) : stack[k] \notin Pixels
    /\ \E k \in 1..Len(stack) :
          stack[k] \in Pixels /\ labels[stack[k][2]][stack[k][1]] = 2
    /\ \E p \in Pixels : labels[p[2]][p[1]] = 1

(***************************************************************************)
(* The component App: its React state, the menus, and the two kinds of     *)
(* asynchronous completions (FileReader.onload and Image.onload).          *)
(***************************************************************************)
Ficheiros == 1..NumFicheiros

\* The pixels of file f: opaque, different from file to file.
PixelsDoFicheiro(f) ==
    MkData(UIW, UIH,
           [p \in 0..(UIW * UIH - 1) |->
              IF (p + f) % 3 = 0 THEN Preto
              ELSE IF (p + f) % 3 = 1 THEN Claro ELSE Branco])

\* reader.readAsDataURL(file), canvas.toDataURL(): the encoded image.
DataURL(w, h, pixels) == [largura |-> w, altura |-> h, dados |-> pixels]

\* new Image() with img.src = url, once loaded: img.width, img.height and
\* the pixels drawImage puts on the canvas.
Decodificar(url) == [width |-> url.largura, height |-> url.altura, data |-> url.dados]

\* The handlers of the menus Filtros and Características that are modelled,
\* and the menu each one is an item of.
Handlers == {"grayscale", "erosao", "domino"}
MenuDe(h) == IF h = "domino" THEN "caracteristicas" ELSE "filtros"

\* What a callback leaves on the canvas, given the pixels drawImage put there.
Manipular(h, d, w, hh) ==
    IF h = "grayscale" THEN converterParaGrayscale(d)
    ELSE IF h = "erosao"
    THEN aplicarErosao(binarizarImagem(converterParaGrayscale(d), limiarDomino),
                       w, hh, ELEMENTO_ESTRUTURANTE_3X3)
    ELSE analiseDomino(d, w, hh).dadosLimpos

\* The canvas keeps what it showed before.
BaseDoCanvasAnterior(anterior, img) ==
    IF anterior = <<>> THEN img.data ELSE anterior.data
\* canvas.width = img.width; canvas.height = img.height; clearRect;
\* drawImage(img, 0, 0): the canvas holds the pixels of img.
BaseDoCanvas(anterior, img) == img.data

\* setImagemModificada is not called.
imagemModificadaMantida(atual) == atual
\* setImagemModificada(true)
imagemModificadaAposOnload(atual) == TRUE

UIInit ==
    /\ width = UIW
    /\ height = UIH
    /\ data = <<>>
    /\ SemMorf
    /\ SemRot
    /\ SemFiltro
    /\ SemFlood
    /\ SemUI
    /\ SemZS
    /\ resultadoDomino = <<>>

\* Part of the frame of every action of the component.
foraDaUI ==
    <<filtroVars, metadeVars, floodVars, width, height, data, offsets, resultado,
      rotVars, zsVars>>

\* handleMenuOpen(setAnchorEl...): a button of the bar opens its menu.
AbrirMenu(m) ==
    /\ menu = "nenhum"
    /\ menu' = m
    /\ op' = "nenhuma"
    /\ UNCHANGED <<foraDaUI, imagemOriginal, imagemTransformada, imagemModificada,
                   pendentes, leitores, canvas, origem, download, resultadoDomino>>

\* handleMenuClose: a click outside the open menu.
FecharMenu ==
    /\ menu # "nenhum"
    /\ menu' = "nenhum"
    /\ op' = "nenhuma"
    /\ UNCHANGED <<foraDaUI, imagemOriginal, imagemTransformada, imagemModificada,
                   pendentes, leitores, canvas, origem, download, resultadoDomino>>

\* handleAbrirImagem with a file chosen: reader.readAsDataURL(file) starts.
AbrirImagem(f) ==
    /\ menu = "arquivo"
    /\ leitores' = leitores \cup {f}
    /\ menu' = "nenhum"
    /\ op' = "nenhuma"
    /\ UNCHANGED <<foraDaUI, imagemOriginal, imagemTransformada, imagemModificada,
                   pendentes, canvas, origem, download, resultadoDomino>>

\* reader.onload
LeitorOnload(f) ==
    /\ f \in leitores
    /\ leitores' = leitores \ {f}
    /\ imagemOriginal' = DataURL(UIW, UIH, PixelsDoFicheiro(f))
    /\ imagemTransformada' = <<>>
    /\ imagemModificada' = FALSE
    /\ resultadoDomino' = <<>>
    /\ origem' = <<>>
    /\ op' = "nenhuma"
    /\ UNCHANGED <<foraDaUI, menu, pendentes, canvas, download>>

\* handleRemoverImagem; its item is disabled without imagemOriginal.
RemoverImagem ==
    /\ menu = "arquivo"
    /\ imagemOriginal # <<>>
    /\ imagemOriginal' = <<>>
    /\ imagemTransformada' = <<>>
    /\ imagemModificada' = FALSE
    /\ resultadoDomino' = <<>>
    /\ origem' = <<>>
    /\ menu' = "nenhum"
    /\ op' = "nenhuma"
    /\ UNCHANGED <<foraDaUI, pendentes, leitores, canvas, download>>

\* handleRemoverAlteracoes; its item is disabled without imagemTransformada.
RemoverAlteracoes ==
    /\ menu = "arquivo"
    /\ imagemTransformada # <<>>
    /\ imagemTransformada' = <<>>
    /\ imagemModificada' = FALSE
    /\ resultadoDomino' = <<>>
    /\ origem' = <<>>
    /\ menu' = "nenhum"
    /\ op' = "nenhuma"
    /\ UNCHANGED <<foraDaUI, imagemOriginal, pendentes, leitores, canvas, download>>

\* handleSalvarImagem; its item is disabled without imagemOriginal or with
\* imagemModificada false.
Salvar ==
    /\ menu = "arquivo"
    /\ imagemOriginal # <<>>
    /\ imagemModificada
    /\ download' = IF imagemTransformada # <<>> /\ imagemModificada
                   THEN imagemTransformada ELSE <<>>
    /\ menu' = "nenhum"
    /\ op' = "salvar"
    /\ UNCHANGED <<foraDaUI, imagemOriginal, imagemTransformada, imagemModificada,
                   pendentes, leitores, canvas, origem, resultadoDomino>>

\* A click on the item of handler h: if (!imagemOriginal) return;
\* carregarNoCanvas(imagemOriginal, callback) creates an Image and sets
\* img.src; the handler closes its menu.
Clicar(h) ==
    /\ menu = MenuDe(h)
    /\ imagemOriginal # <<>>
    /\ Cardinality(pendentes) < MaxPendentes
    /\ pendentes' = pendentes \cup {[src |-> imagemOriginal, handler |-> h]}
    /\ menu' = "nenhum"
    /\ op' = "nenhuma"
    /\ UNCHANGED <<foraDaUI, imagemOriginal, imagemTransformada, imagemModificada,
                   leitores, canvas, origem, download, resultadoDomino>>

\* img.onload of a pending Image: the canvas is resized, cleared and drawn,
\* the callback runs, then setImagemTransformada(canvas.toDataURL()) and
\* setImagemModificada(true).  Only the callback of handleAnaliseDomino
\* calls setResultadoDomino.
ImagemOnload(r) ==
    /\ r \in pendentes
    /\ pendentes' = pendentes \ {r}
    /\ LET img == Decodificar(r.src)
           base == BaseDoCanvas(canvas, img)
           feito == Manipular(r.handler, base, img.width, img.height)
       IN  /\ canvas' = [width |-> img.width, height |-> img.height, data |-> feito]
           /\ imagemTransformada' = DataURL(img.width, img.height, feito)
           /\ resultadoDomino' =
                 IF r.handler = "domino"
                 THEN analiseDomino(base, img.width, img.height).resultadoDomino
                 ELSE resultadoDomino
    /\ imagemModificada' = imagemModificadaAposOnload(imagemModificada)
    /\ origem' = r
    /\ op' = "nenhuma"
    /\ UNCHANGED <<foraDaUI, imagemOriginal, menu, leitores, download>>

UINext ==
    \/ \E m \in {"arquivo", "filtros", "caracteristicas"} : AbrirMenu(m)
    \/ FecharMenu
    \/ \E f \in Ficheiros : AbrirImagem(f)
    \/ \E f \in leitores : LeitorOnload(f)
    \/ RemoverImagem
    \/ RemoverAlteracoes
    \/ Salvar
    \/ \E h \in Handlers : Clicar(h)
    \/ \E r \in pendentes : ImagemOnload(r)

SpecUI == UIInit /\ [][UINext]_vars

(***************************************************************************)
(* The component: properties.                                              *)
(***************************************************************************)
\* C26 as stated: whenever imagemTransformada is not null, imagemOriginal is
\* not null and imagemTransformada was computed from it.
C26_TransformadaDaOriginalAtual ==
    imagemTransformada # <<>> =>
        /\ imagemOriginal # <<>>
        /\ origem.src = imagemOriginal

\* C27 as stated: a resultadoDomino that is not null belongs to the displayed
\* transformed image, which is the output of the domino analysis.
C27_ResultadoDoQueSeMostra ==
    resultadoDomino # <<>> =>
        /\ imagemTransformada # <<>>
        /\ origem.handler = "domino"

\* C29: the transformed image is what its handler makes of the image it was
\* started on, whatever completed before; and imagemOriginal changes only
\* when a FileReader completes or in handleRemoverImagem.
C29_SemEmpilhamento ==
    /\ [](imagemTransformada # <<>> =>
            LET img == Decodificar(origem.src)
            IN  imagemTransformada =
                    DataURL(img.width, img.height,
                            Manipular(origem.handler, img.data, img.width, img.height)))
    /\ [][imagemOriginal' # imagemOriginal =>
            \/ leitores' # leitores
            \/ (menu = "arquivo" /\ imagemOriginal' = <<>>)]_vars

\* The grayscale handler completed after a domino analysis had completed on
\* the same image.
C29_Witness ==
    /\ imagemTransformada # <<>>
    /\ origem.handler = "grayscale"
    /\ resultadoDomino # <<>>
    /\ origem.src = imagemOriginal
    /\ canvas # <<>>

\* C30: imagemModificada is true exactly when imagemTransformada is not
\* null, and handleSalvarImagem saves exactly when there is a transformed
\* image.
C30_ModificadaSseTransformada ==
    /\ [](imagemModificada <=> imagemTransformada # <<>>)
    /\ [][op' = "salvar" =>
            download' = IF imagemTransformada # <<>> THEN imagemTransformada
                        ELSE <<>>]_vars

\* A transformed image has been saved and is still displayed.
C30_Witness ==
    /\ op = "salvar"
    /\ download # <<>>
    /\ download = imagemTransformada
    /\ imagemModificada

====
